---- MODULE Spec2Model ----
(***************************************************************************)
(* Model of the GoldTokenization ledger (contracts/GoldTokenization.sol),   *)
(* of the event polling of Web3Service.setupEventListeners and of the       *)
(* handlers of EventListenerService writing to the database through         *)
(* PrismaService.                                                           *)
(*                                                                         *)
(* Spec: one action per external function of the contract; a call that     *)
(* reverts is a step that changes nothing but the record of the last call. *)
(* A successful call is disabled once the event log holds MaxEvents        *)
(* entries; a reverting call is always possible.                           *)
(* StepSpec: transferTokens statement by statement.                        *)
(* SyncSpec: accepted ledger calls, interleaved with the polling process:  *)
(* one action per resumption of pollEvents and of each handler.            *)
(* ApiSpec: the HTTP controllers, one action per request, interleaved with  *)
(* accepted ledger calls sent to the contract directly.                    *)
(* ApiStepSpec: the transfer controller await by await, several requests   *)
(* in flight. CreateSyncSpec: the create controller await by await beside  *)
(* the polling process.                                                    *)
(***************************************************************************)
EXTENDS Integers, Sequences, FiniteSets, TLC

(* ----- bounds of the model ----- *)
\* width of the modelled unsigned integer type (uint256 in the contract)
UintBits == 6
\* longest event log explored
MaxEvents == 3

MaxUint == 2^UintBits - 1

(* ----- program constants ----- *)
GRAMS_PER_TOKEN == 10

DEFAULT_ADMIN_ROLE == "DEFAULT_ADMIN_ROLE"
MINTER_ROLE == "MINTER_ROLE"
GROUP_MANAGER_ROLE == "GROUP_MANAGER_ROLE"

(* ----- input sets ----- *)
\* bytes32(0): "no group"
ZeroHash == "0x0"
\* tagIds and group hashes are opaque keys; each is listed in the order in which the
\* explored calls first bring it into use
TagOrder == <<"C1", "C2", "C3">>
TagIds == {TagOrder[i] : i \in 1..Len(TagOrder)}
Rfids == {"R1"}
HashOrder == <<"0xA", "0xB">>
GroupHashes == {HashOrder[i] : i \in 1..Len(HashOrder)} \cup {ZeroHash}
Names == {"Batch A"}
Descriptions == {"desc"}
\* grams offered to createContainer: zero, a value with a remainder, the largest value
GramsInputs == {0, 25, MaxUint}
\* token amounts offered to transferTokens
AmountInputs == {0, 1, 2}
\* msg.sender: the deployer, and two accounts the admin has granted roles to
Accounts == {"deployer", "custodian", "registrar"}

VARIABLES
    containers,          \* mapping(string => Container)
    groups,              \* mapping(bytes32 => Group)
    containerHistory,    \* mapping(string => string[])
    blockNumberCounter,  \* Counters.Counter _blockNumberCounter
    roles,               \* AccessControl: account -> roles held
    events,              \* the contract's event log, in emission order
    lastCall,            \* the last external call: which function, and how it ended
    status,              \* ReentrancyGuard._status, as nonReentrant reads and writes it
    frame,               \* the transferTokens call in execution, statement by statement
    isListening,         \* EventListenerService.isListening: the host process polls
    lastProcessedBlock,  \* setupEventListeners: let lastProcessedBlock
    polls,               \* the pollEvents calls in flight, each at one of its awaits
    handlers,            \* the event handler calls in flight, each at one of its awaits
    dbContainers,        \* the rows of prisma.container
    dbGroups,            \* the rows of prisma.group
    dbTransactions,      \* the rows of prisma.transaction
    projected,           \* the events some handler call has carried through to its end
    watermarkAtStop,     \* lastProcessedBlock as it was when the process last stopped
    response,            \* the last HTTP response a controller sent
    requests             \* the transfer requests in flight, each at one of its awaits

ledger == <<containers, groups, containerHistory, blockNumberCounter, roles, events>>
\* the state of a call in execution
execution == <<status, frame>>
\* the state of the polling process, lost when the process stops
synchronizer == <<isListening, lastProcessedBlock, polls, handlers>>
\* the database
replica == <<dbContainers, dbGroups, dbTransactions>>
\* the state of the HTTP controllers
api == <<response, requests>>
\* everything off the chain
offChain == <<isListening, lastProcessedBlock, polls, handlers, dbContainers, dbGroups,
              dbTransactions, projected, watermarkAtStop, response, requests>>
vars == <<containers, groups, containerHistory, blockNumberCounter, roles, events, lastCall,
          status, frame, isListening, lastProcessedBlock, polls, handlers, dbContainers,
          dbGroups, dbTransactions, projected, watermarkAtStop, response, requests>>

\* storage default of a Container slot never written
NoContainer ==
    [tagId |-> "", rfid |-> "", grams |-> 0, tokens |-> 0, blockNumber |-> 0,
     groupHash |-> ZeroHash, exists |-> FALSE]

\* storage default of a Group slot never written
NoGroup ==
    [groupHash |-> ZeroHash, name |-> "", description |-> "", createdAt |-> 0,
     exists |-> FALSE]

\* mutant of hasRole: the admin role passes every role check
hasRoleOrAdmin(role, account) ==
    role \in roles[account] \/ DEFAULT_ADMIN_ROLE \in roles[account]

\* AccessControl.hasRole, as onlyRole consults it; a call onlyRole refuses reverts, and
\* the model names that outcome "Unauthorized"
hasRole(role, account) == role \in roles[account]

\* mutant of groupExists: every hash passes for a group
groupExistsUnchecked(groupHash) == TRUE

\* groups[groupHash].exists
groupExists(groupHash) == groups[groupHash].exists

\* mutant of increment: the counter is read but never advanced
incrementStuck(counter) == counter

\* Counters.increment: unchecked { counter._value += 1 }
increment(counter) == (counter + 1) % (MaxUint + 1)

\* mutant of fits: unchecked arithmetic, nothing panics
fitsUnchecked(x) == TRUE

\* Solidity 0.8 checked arithmetic: the value fits the type, or the call panics
fits(x) == x >= 0 /\ x <= MaxUint

\* block.timestamp: every accepted transaction is mined in a block of its own, one
\* time unit after the block before it
timestamp == Len(events) + 1

Call(op, result) == [op |-> op, result |-> result]

\* the contract as deployed: empty storage, the counter at 1, every role with the
\* deployer; the other two accounts hold the roles the admin has granted them
\* no transferTokens call is in execution
\* no request has been answered yet
NoResponse == [op |-> "none", status |-> 0, key |-> ""]

NoFrame ==
    [pc |-> "none", fromTagId |-> "", toTagId |-> "", tokenAmount |-> 0,
     saved |-> [containers |-> [t \in TagIds |-> NoContainer], events |-> <<>>]]

Init ==
    /\ containers = [t \in TagIds |-> NoContainer]
    /\ groups = [h \in GroupHashes |-> NoGroup]
    /\ containerHistory = [t \in TagIds |-> <<>>]
    /\ blockNumberCounter = 1
    /\ roles = [a \in Accounts |->
                 CASE a = "deployer" -> {DEFAULT_ADMIN_ROLE, MINTER_ROLE, GROUP_MANAGER_ROLE}
                   [] a = "custodian" -> {DEFAULT_ADMIN_ROLE, MINTER_ROLE}
                   [] a = "registrar" -> {DEFAULT_ADMIN_ROLE, GROUP_MANAGER_ROLE}]
    /\ events = <<>>
    /\ lastCall = Call("constructor", "ok")
    /\ status = "NOT_ENTERED"
    /\ frame = NoFrame
    /\ isListening = FALSE
    /\ lastProcessedBlock = 0
    /\ polls = <<>>
    /\ handlers = <<>>
    /\ dbContainers = <<>>
    /\ dbGroups = <<>>
    /\ dbTransactions = <<>>
    /\ projected = {}
    /\ watermarkAtStop = 0
    /\ response = NoResponse
    /\ requests = <<>>

(* ----- createContainer ----- *)
\* mutant of createContainerCheck: the amount is validated before the tagId
createContainerCheckAmountFirst(sender, tagId, rfid, grams, groupHash) ==
    IF ~hasRole(MINTER_ROLE, sender) THEN "Unauthorized"
    ELSE IF grams = 0 THEN "InvalidAmount"
    ELSE IF containers[tagId].exists THEN "ContainerAlreadyExists"
    ELSE IF groupHash # ZeroHash /\ ~groupExists(groupHash) THEN "GroupDoesNotExist"
    ELSE "ok"

\* mutant of createContainerCheck: a tagId already in use is accepted again
createContainerCheckOverwrites(sender, tagId, rfid, grams, groupHash) ==
    IF ~hasRole(MINTER_ROLE, sender) THEN "Unauthorized"
    ELSE IF grams = 0 THEN "InvalidAmount"
    ELSE IF groupHash # ZeroHash /\ ~groupExists(groupHash) THEN "GroupDoesNotExist"
    ELSE "ok"

\* the checks of createContainer in source order; "ok" when none reverts
createContainerCheck(sender, tagId, rfid, grams, groupHash) ==
    IF ~hasRole(MINTER_ROLE, sender) THEN "Unauthorized"
    ELSE IF containers[tagId].exists THEN "ContainerAlreadyExists"
    ELSE IF grams = 0 THEN "InvalidAmount"
    ELSE IF groupHash # ZeroHash /\ ~groupExists(groupHash) THEN "GroupDoesNotExist"
    ELSE "ok"

\* mutant of tokensFor: rounds to the nearest token instead of down
tokensForRounded(grams) == (grams + 5) \div GRAMS_PER_TOKEN

\* uint256 tokens = grams / GRAMS_PER_TOKEN
tokensFor(grams) == grams \div GRAMS_PER_TOKEN

\* mutant of newContainer: tagId and rfid stored in each other's field
newContainerSwapped(tagId, rfid, grams, tokens, blockNumber, groupHash) ==
    [tagId |-> rfid, rfid |-> tagId, grams |-> grams, tokens |-> tokens,
     blockNumber |-> blockNumber, groupHash |-> groupHash, exists |-> TRUE]

\* the Container struct createContainer stores
newContainer(tagId, rfid, grams, tokens, blockNumber, groupHash) ==
    [tagId |-> tagId, rfid |-> rfid, grams |-> grams, tokens |-> tokens,
     blockNumber |-> blockNumber, groupHash |-> groupHash, exists |-> TRUE]

\* mutant of createContainerEffect: the call takes two sequence numbers
createContainerEffectSkipping(tagId, rfid, grams, groupHash) ==
    LET tokens == tokensFor(grams)
        blockNumber == blockNumberCounter
    IN  /\ blockNumberCounter' = increment(increment(blockNumberCounter))
        /\ containers' = [containers EXCEPT ![tagId] =
               newContainer(tagId, rfid, grams, tokens, blockNumber, groupHash)]
        /\ containerHistory' = [containerHistory EXCEPT ![tagId] = Append(@, tagId)]
        /\ events' = Append(events,
               [kind |-> "ContainerCreated", tagId |-> tagId, rfid |-> rfid,
                grams |-> grams, tokens |-> tokens, blockNumber |-> blockNumber,
                groupHash |-> groupHash, timestamp |-> timestamp])
        /\ UNCHANGED <<groups, roles>>

createContainerEffect(tagId, rfid, grams, groupHash) ==
    LET tokens == tokensFor(grams)
        blockNumber == blockNumberCounter
    IN  /\ blockNumberCounter' = increment(blockNumberCounter)
        /\ containers' = [containers EXCEPT ![tagId] =
               newContainer(tagId, rfid, grams, tokens, blockNumber, groupHash)]
        /\ containerHistory' = [containerHistory EXCEPT ![tagId] = Append(@, tagId)]
        /\ events' = Append(events,
               [kind |-> "ContainerCreated", tagId |-> tagId, rfid |-> rfid,
                grams |-> grams, tokens |-> tokens, blockNumber |-> blockNumber,
                groupHash |-> groupHash, timestamp |-> timestamp])
        /\ UNCHANGED <<groups, roles>>

createContainer(sender, tagId, rfid, grams, groupHash) ==
    LET result == createContainerCheck(sender, tagId, rfid, grams, groupHash)
    IN  /\ result = "ok" => Len(events) < MaxEvents
        /\ IF result = "ok"
           THEN createContainerEffect(tagId, rfid, grams, groupHash)
           ELSE UNCHANGED ledger
        /\ lastCall' = Call("createContainer", result)

(* ----- transferTokens ----- *)
\* uint256 gramsToTransfer = tokenAmount * GRAMS_PER_TOKEN
gramsFor(tokenAmount) == tokenAmount * GRAMS_PER_TOKEN

\* mutant of debited: the grams stay with the source
debitedTokensOnly(fromTagId, tokenAmount, gramsToTransfer) ==
    [containers EXCEPT ![fromTagId].tokens = @ - tokenAmount]

\* the containers after the source is debited
debited(fromTagId, tokenAmount, gramsToTransfer) ==
    [containers EXCEPT ![fromTagId].tokens = @ - tokenAmount,
                       ![fromTagId].grams = @ - gramsToTransfer]

\* mutant of credited: the destination is credited on what it held before the debit
creditedFromSnapshot(mid, toTagId, tokenAmount, gramsToTransfer) ==
    [mid EXCEPT ![toTagId].tokens = containers[toTagId].tokens + tokenAmount,
                ![toTagId].grams = containers[toTagId].grams + gramsToTransfer]

\* mutant of credited: the destination's grams are not credited
creditedTokensOnly(mid, toTagId, tokenAmount, gramsToTransfer) ==
    [mid EXCEPT ![toTagId].tokens = @ + tokenAmount]

\* the containers after an existing destination is credited
credited(mid, toTagId, tokenAmount, gramsToTransfer) ==
    [mid EXCEPT ![toTagId].tokens = @ + tokenAmount,
                ![toTagId].grams = @ + gramsToTransfer]

\* mutant of materialized: the new container gets no sequence number
materializedUnnumbered(mid, toTagId, tokenAmount, gramsToTransfer, blockNumber) ==
    [mid EXCEPT ![toTagId] =
        [tagId |-> toTagId, rfid |-> "", grams |-> gramsToTransfer,
         tokens |-> tokenAmount, blockNumber |-> 0,
         groupHash |-> ZeroHash, exists |-> TRUE]]

\* the containers after a destination that did not exist is created
materialized(mid, toTagId, tokenAmount, gramsToTransfer, blockNumber) ==
    [mid EXCEPT ![toTagId] =
        [tagId |-> toTagId, rfid |-> "", grams |-> gramsToTransfer,
         tokens |-> tokenAmount, blockNumber |-> blockNumber,
         groupHash |-> ZeroHash, exists |-> TRUE]]

\* mutant of transferTokensCheck: the amount is validated before the source
transferTokensCheckAmountFirst(sender, fromTagId, toTagId, tokenAmount) ==
    IF ~hasRole(MINTER_ROLE, sender) THEN "Unauthorized"
    ELSE IF tokenAmount = 0 THEN "InvalidAmount"
    ELSE IF ~containers[fromTagId].exists THEN "ContainerDoesNotExist"
    ELSE IF containers[fromTagId].tokens < tokenAmount THEN "InsufficientTokens"
    ELSE "ok"

\* the checks of transferTokens in source order, then the checked arithmetic of the
\* body in execution order; "ok" when nothing reverts
transferTokensCheck(sender, fromTagId, toTagId, tokenAmount) ==
    IF ~hasRole(MINTER_ROLE, sender) THEN "Unauthorized"
    ELSE IF ~containers[fromTagId].exists THEN "ContainerDoesNotExist"
    ELSE IF tokenAmount = 0 THEN "InvalidAmount"
    ELSE IF containers[fromTagId].tokens < tokenAmount THEN "InsufficientTokens"
    ELSE LET gramsToTransfer == gramsFor(tokenAmount)
             mid == debited(fromTagId, tokenAmount, gramsToTransfer)
         IN  IF ~fits(gramsToTransfer) THEN "Panic"
             ELSE IF ~fits(mid[fromTagId].tokens) \/ ~fits(mid[fromTagId].grams)
                  THEN "Panic"
             ELSE IF mid[toTagId].exists
                     /\ (~fits(mid[toTagId].tokens + tokenAmount)
                         \/ ~fits(mid[toTagId].grams + gramsToTransfer))
                  THEN "Panic"
             ELSE "ok"

\* mutant of transferTokensEffect: the transfer is recorded in the history of the
\* source instead of the destination
transferTokensEffectHistoryOfSource(fromTagId, toTagId, tokenAmount) ==
    LET gramsToTransfer == gramsFor(tokenAmount)
        mid == debited(fromTagId, tokenAmount, gramsToTransfer)
    IN  /\ IF mid[toTagId].exists
           THEN /\ containers' = credited(mid, toTagId, tokenAmount, gramsToTransfer)
                /\ containerHistory' =
                       [containerHistory EXCEPT ![fromTagId] = Append(@, toTagId)]
                /\ UNCHANGED blockNumberCounter
           ELSE LET blockNumber == blockNumberCounter
                IN  /\ blockNumberCounter' = increment(blockNumberCounter)
                    /\ containers' = materialized(mid, toTagId, tokenAmount,
                                                  gramsToTransfer, blockNumber)
                    /\ containerHistory' =
                           [containerHistory EXCEPT ![toTagId] = <<fromTagId>>]
        /\ events' = Append(events,
               [kind |-> "TokensTransferred", fromTagId |-> fromTagId, toTagId |-> toTagId,
                tokens |-> tokenAmount, grams |-> gramsToTransfer,
                timestamp |-> timestamp])
        /\ UNCHANGED <<groups, roles>>

\* mutant of transferTokensEffect: the history of a destination that is created stays
\* empty
transferTokensEffectNoHistory(fromTagId, toTagId, tokenAmount) ==
    LET gramsToTransfer == gramsFor(tokenAmount)
        mid == debited(fromTagId, tokenAmount, gramsToTransfer)
    IN  /\ IF mid[toTagId].exists
           THEN /\ containers' = credited(mid, toTagId, tokenAmount, gramsToTransfer)
                /\ containerHistory' =
                       [containerHistory EXCEPT ![toTagId] = Append(@, fromTagId)]
                /\ UNCHANGED blockNumberCounter
           ELSE LET blockNumber == blockNumberCounter
                IN  /\ blockNumberCounter' = increment(blockNumberCounter)
                    /\ containers' = materialized(mid, toTagId, tokenAmount,
                                                  gramsToTransfer, blockNumber)
                    /\ UNCHANGED containerHistory
        /\ events' = Append(events,
               [kind |-> "TokensTransferred", fromTagId |-> fromTagId, toTagId |-> toTagId,
                tokens |-> tokenAmount, grams |-> gramsToTransfer,
                timestamp |-> timestamp])
        /\ UNCHANGED <<groups, roles>>

transferTokensEffect(fromTagId, toTagId, tokenAmount) ==
    LET gramsToTransfer == gramsFor(tokenAmount)
        mid == debited(fromTagId, tokenAmount, gramsToTransfer)
    IN  /\ IF mid[toTagId].exists
           THEN /\ containers' = credited(mid, toTagId, tokenAmount, gramsToTransfer)
                /\ containerHistory' =
                       [containerHistory EXCEPT ![toTagId] = Append(@, fromTagId)]
                /\ UNCHANGED blockNumberCounter
           ELSE LET blockNumber == blockNumberCounter
                IN  /\ blockNumberCounter' = increment(blockNumberCounter)
                    /\ containers' = materialized(mid, toTagId, tokenAmount,
                                                  gramsToTransfer, blockNumber)
                    /\ containerHistory' =
                           [containerHistory EXCEPT ![toTagId] = <<fromTagId>>]
        /\ events' = Append(events,
               [kind |-> "TokensTransferred", fromTagId |-> fromTagId, toTagId |-> toTagId,
                tokens |-> tokenAmount, grams |-> gramsToTransfer,
                timestamp |-> timestamp])
        /\ UNCHANGED <<groups, roles>>

transferTokens(sender, fromTagId, toTagId, tokenAmount) ==
    LET result == transferTokensCheck(sender, fromTagId, toTagId, tokenAmount)
    IN  /\ result = "ok" => Len(events) < MaxEvents
        /\ IF result = "ok"
           THEN transferTokensEffect(fromTagId, toTagId, tokenAmount)
           ELSE UNCHANGED ledger
        /\ lastCall' = Call("transferTokens", result)

(* ----- createGroup ----- *)
\* mutant of createGroupCheck: a hash already in use is accepted again
createGroupCheckOverwrites(sender, groupHash, name, description) ==
    IF ~hasRole(GROUP_MANAGER_ROLE, sender) THEN "Unauthorized"
    ELSE "ok"

createGroupCheck(sender, groupHash, name, description) ==
    IF ~hasRole(GROUP_MANAGER_ROLE, sender) THEN "Unauthorized"
    ELSE IF groupExists(groupHash) THEN "GroupAlreadyExists"
    ELSE "ok"

\* mutant of createGroupEffect: the group is stored and no event is emitted
createGroupEffectSilent(groupHash, name, description) ==
    /\ groups' = [groups EXCEPT ![groupHash] =
           [groupHash |-> groupHash, name |-> name, description |-> description,
            createdAt |-> timestamp, exists |-> TRUE]]
    /\ UNCHANGED <<containers, containerHistory, blockNumberCounter, roles, events>>

createGroupEffect(groupHash, name, description) ==
    /\ groups' = [groups EXCEPT ![groupHash] =
           [groupHash |-> groupHash, name |-> name, description |-> description,
            createdAt |-> timestamp, exists |-> TRUE]]
    /\ events' = Append(events,
           [kind |-> "GroupCreated", groupHash |-> groupHash, name |-> name,
            description |-> description, timestamp |-> timestamp])
    /\ UNCHANGED <<containers, containerHistory, blockNumberCounter, roles>>

createGroup(sender, groupHash, name, description) ==
    LET result == createGroupCheck(sender, groupHash, name, description)
    IN  /\ result = "ok" => Len(events) < MaxEvents
        /\ IF result = "ok"
           THEN createGroupEffect(groupHash, name, description)
           ELSE UNCHANGED ledger
        /\ lastCall' = Call("createGroup", result)

(* ----- assignContainerToGroup ----- *)
\* mutant of assignContainerToGroupCheck: the group is looked up before the container
assignContainerToGroupCheckGroupFirst(sender, tagId, groupHash) ==
    IF ~hasRole(GROUP_MANAGER_ROLE, sender) THEN "Unauthorized"
    ELSE IF ~groupExists(groupHash) THEN "GroupDoesNotExist"
    ELSE IF ~containers[tagId].exists THEN "ContainerDoesNotExist"
    ELSE "ok"

assignContainerToGroupCheck(sender, tagId, groupHash) ==
    IF ~hasRole(GROUP_MANAGER_ROLE, sender) THEN "Unauthorized"
    ELSE IF ~containers[tagId].exists THEN "ContainerDoesNotExist"
    ELSE IF ~groupExists(groupHash) THEN "GroupDoesNotExist"
    ELSE "ok"

\* mutant of assignContainerToGroupEffect: the assignment consumes a sequence number
assignContainerToGroupEffectCounting(tagId, groupHash) ==
    /\ containers' = [containers EXCEPT ![tagId].groupHash = groupHash]
    /\ blockNumberCounter' = increment(blockNumberCounter)
    /\ UNCHANGED <<groups, containerHistory, roles, events>>

assignContainerToGroupEffect(tagId, groupHash) ==
    /\ containers' = [containers EXCEPT ![tagId].groupHash = groupHash]
    /\ UNCHANGED <<groups, containerHistory, blockNumberCounter, roles, events>>

\* mutant of assignContainerToGroup: the group hash is written before the group is
\* looked up
assignContainerToGroupWritesFirst(sender, tagId, groupHash) ==
    LET result == assignContainerToGroupCheck(sender, tagId, groupHash)
    IN  /\ IF result \in {"ok", "GroupDoesNotExist"}
           THEN assignContainerToGroupEffect(tagId, groupHash)
           ELSE UNCHANGED ledger
        /\ lastCall' = Call("assignContainerToGroup", result)

assignContainerToGroup(sender, tagId, groupHash) ==
    LET result == assignContainerToGroupCheck(sender, tagId, groupHash)
    IN  /\ IF result = "ok"
           THEN assignContainerToGroupEffect(tagId, groupHash)
           ELSE UNCHANGED ledger
        /\ lastCall' = Call("assignContainerToGroup", result)

(* ----- views ----- *)
\* getContainer: reverts for a tagId never stored, else returns the six fields in the
\* order of the function's return list
getContainer(tagId) ==
    IF tagId \notin TagIds \/ ~containers[tagId].exists
    THEN [result |-> "ContainerDoesNotExist", value |-> <<>>]
    ELSE LET container == containers[tagId]
         IN  [result |-> "ok",
              value |-> <<container.tagId, container.rfid, container.grams,
                          container.tokens, container.blockNumber, container.groupHash>>]

\* the tagIds a call names: every tagId in use, and the first one not yet in use
TagInputs ==
    {TagOrder[i] : i \in {j \in 1..Len(TagOrder) :
                             \A k \in 1..(j - 1) : containers[TagOrder[k]].exists}}

\* the group hashes a call names: bytes32(0), every other hash in use, and the first
\* one not yet in use
HashInputs ==
    {ZeroHash} \cup
    {HashOrder[i] : i \in {j \in 1..Len(HashOrder) :
                              \A k \in 1..(j - 1) : groups[HashOrder[k]].exists}}

\* every call is one transaction: it runs from its first statement to its last, or
\* reverts, before anything else happens
Next ==
    \/ \E sender \in Accounts, tagId \in TagInputs, rfid \in Rfids, grams \in GramsInputs,
          groupHash \in HashInputs :
          createContainer(sender, tagId, rfid, grams, groupHash) /\ UNCHANGED <<execution, offChain>>
    \/ \E sender \in Accounts, fromTagId \in TagInputs, toTagId \in TagInputs,
          tokenAmount \in AmountInputs :
          transferTokens(sender, fromTagId, toTagId, tokenAmount) /\ UNCHANGED <<execution, offChain>>
    \/ \E sender \in Accounts, groupHash \in HashInputs, name \in Names,
          description \in Descriptions :
          createGroup(sender, groupHash, name, description) /\ UNCHANGED <<execution, offChain>>
    \/ \E sender \in Accounts, tagId \in TagInputs, groupHash \in HashInputs :
          assignContainerToGroup(sender, tagId, groupHash) /\ UNCHANGED <<execution, offChain>>

Spec == Init /\ [][Next]_vars

(* ======================= transferTokens, statement by statement ======================= *)

\* mutant of after: the event is emitted before the destination is written
afterEmitFirst(pc) ==
    CASE pc = "require" -> "debit"
      [] pc = "debit" -> "emit"
      [] pc = "emit" -> "credit"
      [] pc = "credit" -> "exit"

\* the order of the statements of transferTokens: the checks, the writes to the
\* source, the writes to the destination, the emit, the return
after(pc) ==
    CASE pc = "require" -> "debit"
      [] pc = "debit" -> "credit"
      [] pc = "credit" -> "emit"
      [] pc = "emit" -> "exit"

\* mutant of nonReentrant: the modifier lets a nested call in
nonReentrantAbsent(entered) == "ok"

\* the nonReentrant modifier in front of transferTokens: a call made while one is in
\* execution reverts
nonReentrant(entered) == IF entered = "ENTERED" THEN "ReentrantCall" ELSE "ok"

\* the checks of transferTokens that precede its first write
transferTokensRequire(sender, fromTagId, toTagId, tokenAmount) ==
    IF ~hasRole(MINTER_ROLE, sender) THEN "Unauthorized"
    ELSE IF ~containers[fromTagId].exists THEN "ContainerDoesNotExist"
    ELSE IF tokenAmount = 0 THEN "InvalidAmount"
    ELSE IF containers[fromTagId].tokens < tokenAmount THEN "InsufficientTokens"
    ELSE "ok"

\* the statement at frame.pc has run: go to the next one, or return
advance ==
    IF after(frame.pc) = "exit"
    THEN /\ frame' = NoFrame
         /\ status' = "NOT_ENTERED"
         /\ lastCall' = Call("transferTokens", "ok")
    ELSE /\ frame' = [frame EXCEPT !.pc = after(frame.pc)]
         /\ UNCHANGED <<status, lastCall>>

\* a transaction calls transferTokens: the modifiers and the checks run; a call that
\* passes them is in execution from here on
transferTokensEnter(sender, fromTagId, toTagId, tokenAmount) ==
    LET result == transferTokensRequire(sender, fromTagId, toTagId, tokenAmount)
    IN  /\ frame.pc = "none"
        /\ nonReentrant(status) = "ok"
        /\ result = "ok" => Len(events) < MaxEvents
        /\ IF result = "ok"
           THEN /\ status' = "ENTERED"
                /\ frame' = [pc |-> after("require"), fromTagId |-> fromTagId,
                             toTagId |-> toTagId, tokenAmount |-> tokenAmount,
                             saved |-> [containers |-> containers, events |-> events]]
                /\ UNCHANGED lastCall
           ELSE /\ lastCall' = Call("transferTokens", result)
                /\ UNCHANGED execution
        /\ UNCHANGED ledger

\* the two writes to the source
transferTokensDebit ==
    /\ frame.pc = "debit"
    /\ containers' = debited(frame.fromTagId, frame.tokenAmount, gramsFor(frame.tokenAmount))
    /\ advance
    /\ UNCHANGED <<groups, containerHistory, blockNumberCounter, roles, events>>

\* the writes to the destination: credited if it exists, created if not; an overflow
\* of the checked additions reverts the whole call
transferTokensCredit ==
    LET toTagId == frame.toTagId
        tokenAmount == frame.tokenAmount
        gramsToTransfer == gramsFor(tokenAmount)
    IN  /\ frame.pc = "credit"
        /\ IF /\ containers[toTagId].exists
              /\ \/ ~fits(containers[toTagId].tokens + tokenAmount)
                 \/ ~fits(containers[toTagId].grams + gramsToTransfer)
           THEN /\ containers' = frame.saved.containers
                /\ events' = frame.saved.events
                /\ frame' = NoFrame
                /\ status' = "NOT_ENTERED"
                /\ lastCall' = Call("transferTokens", "Panic")
                /\ UNCHANGED <<containerHistory, blockNumberCounter>>
           ELSE /\ IF containers[toTagId].exists
                   THEN /\ containers' = credited(containers, toTagId, tokenAmount,
                                                  gramsToTransfer)
                        /\ containerHistory' = [containerHistory EXCEPT
                               ![toTagId] = Append(@, frame.fromTagId)]
                        /\ UNCHANGED blockNumberCounter
                   ELSE /\ blockNumberCounter' = increment(blockNumberCounter)
                        /\ containers' = materialized(containers, toTagId, tokenAmount,
                                                      gramsToTransfer, blockNumberCounter)
                        /\ containerHistory' = [containerHistory EXCEPT
                               ![toTagId] = <<frame.fromTagId>>]
                /\ advance
                /\ UNCHANGED events
        /\ UNCHANGED <<groups, roles>>

\* the emit statement
transferTokensEmit ==
    /\ frame.pc = "emit"
    /\ events' = Append(events,
           [kind |-> "TokensTransferred", fromTagId |-> frame.fromTagId,
            toTagId |-> frame.toTagId, tokens |-> frame.tokenAmount,
            grams |-> gramsFor(frame.tokenAmount), timestamp |-> timestamp])
    /\ advance
    /\ UNCHANGED <<containers, groups, containerHistory, blockNumberCounter, roles>>

\* a transferTokens call arrives while one is in execution
transferTokensReenter(sender, fromTagId, toTagId, tokenAmount) ==
    /\ frame.pc # "none"
    /\ IF nonReentrant(status) = "ok"
       THEN transferTokens(sender, fromTagId, toTagId, tokenAmount)
       ELSE /\ lastCall' = Call("transferTokens", nonReentrant(status))
            /\ UNCHANGED ledger
    /\ UNCHANGED execution

\* a reader calls the getContainer view; a call from outside the contract runs on the
\* state some transaction has left behind
getContainerCall(tagId) ==
    /\ frame.pc = "none"
    /\ lastCall' = Call("getContainer", getContainer(tagId).result)
    /\ UNCHANGED <<ledger, execution>>

StepNext ==
    \/ \E sender \in Accounts, tagId \in TagInputs, rfid \in Rfids, grams \in GramsInputs :
          /\ frame.pc = "none"
          /\ createContainer(sender, tagId, rfid, grams, ZeroHash)
          /\ UNCHANGED <<execution, offChain>>
    \/ \E sender \in Accounts, fromTagId \in TagInputs, toTagId \in TagInputs,
          tokenAmount \in AmountInputs :
          transferTokensEnter(sender, fromTagId, toTagId, tokenAmount) /\ UNCHANGED offChain
    \/ transferTokensDebit /\ UNCHANGED offChain
    \/ transferTokensCredit /\ UNCHANGED offChain
    \/ transferTokensEmit /\ UNCHANGED offChain
    \/ \E sender \in Accounts, fromTagId \in TagInputs, toTagId \in TagInputs,
          tokenAmount \in AmountInputs :
          transferTokensReenter(sender, fromTagId, toTagId, tokenAmount) /\ UNCHANGED offChain
    \/ \E tagId \in TagInputs : getContainerCall(tagId) /\ UNCHANGED offChain

StepSpec == Init /\ [][StepNext]_vars

(* ======================= the Synchronizer and the Replica ======================= *)

\* most pollEvents calls in flight at once
MaxPolls == 2
\* most handler calls in flight at once
MaxHandlers == 2
\* longest event log explored together with the polling process
MaxSyncEvents == 2

\* JavaScript null
Null == "null"

\* the sequence s without its k-th element
Remove(s, k) == SubSeq(s, 1, k - 1) \o SubSeq(s, k + 1, Len(s))

\* web3.utils.hexToString(...).replace(/\0/g, ''): the bytes of a hash read as text;
\* bytes32(0) reads as the empty string
hexToString(h) ==
    CASE h = ZeroHash -> ""
      [] h = "0xA" -> "text(0xA)"
      [] h = "0xB" -> "text(0xB)"

\* x || null
orNull(x) == IF x = "" THEN Null ELSE x

\* the chain: the contract is deployed in block 1 and every accepted call is mined in
\* a block of its own, so the k-th event is the log of block k + 1
blockOf(i) == i + 1

\* web3.eth.getBlockNumber
getBlockNumber == Len(events) + 1

\* web3.eth.getPastLogs for one event signature: the positions in the log of the
\* events of that kind in the blocks fromBlock..toBlock, oldest first
getPastLogs(kind, fromBlock, toBlock) ==
    LET InRange(i) == /\ events[i].kind = kind
                      /\ fromBlock <= blockOf(i)
                      /\ blockOf(i) <= toBlock
    IN  SelectSeq([i \in 1..Len(events) |-> i], InRange)

\* mutant of topic: the decoded event holds the string itself
topicAsString(tagId) == tagId

\* what a log holds of an indexed string argument: its topic, the keccak256 hash of the
\* string (string indexed tagId, fromTagId, toTagId); decodeLog has nothing else to
\* give the callback
topic(tagId) ==
    CASE tagId = "C1" -> "keccak(C1)"
      [] tagId = "C2" -> "keccak(C2)"
      [] tagId = "C3" -> "keccak(C3)"

\* a handler call as it starts, for the event at position i of the log
\* (transactionHash)
callback(i) == [event |-> i]
callbacks(logs) == [k \in 1..Len(logs) |-> callback(logs[k])]

\* Web3Service.getContainer: the contract's view, its sixth value read as text
web3GetContainer(tagId) ==
    LET container == getContainer(tagId).value
    IN  [tagId |-> container[1], rfid |-> container[2], grams |-> container[3],
         tokens |-> container[4], blockNumber |-> container[5],
         groupHash |-> hexToString(container[6])]

(* ----- PrismaService ----- *)
\* prisma.container.findUnique({ where: { tagId } }) finds a row
hasContainer(table, tagId) == \E k \in 1..Len(table) : table[k].tagId = tagId

\* the row of table t stored under tagId (findUnique)
rowOf(t, tagId) == t[CHOOSE k \in 1..Len(t) : t[k].tagId = tagId]

\* mutant of prismaCreateContainer: tagId is not a unique key, the row is stored again
prismaCreateContainerAgain(table, data) ==
    [threw |-> FALSE,
     table |-> Append(table,
                   [tagId |-> data.tagId, rfid |-> data.rfid, grams |-> data.grams,
                    tokens |-> data.tokens, blockNumber |-> data.blockNumber,
                    groupHash |-> orNull(data.groupHash)])]

\* PrismaService.createContainer: prisma.container.create, which throws on a tagId
\* already stored (tagId is the unique key findUnique and update address rows by)
prismaCreateContainer(table, data) ==
    LET row == [tagId |-> data.tagId, rfid |-> data.rfid, grams |-> data.grams,
                tokens |-> data.tokens, blockNumber |-> data.blockNumber,
                groupHash |-> orNull(data.groupHash)]
    IN  IF hasContainer(table, data.tagId)
        THEN [threw |-> TRUE, table |-> table]
        ELSE [threw |-> FALSE, table |-> Append(table, row)]

\* PrismaService.verifyAndSyncContainer, given what its findUnique returned
verifyAndSyncContainer(found, table, blockchainData) ==
    IF ~found
    THEN prismaCreateContainer(table, blockchainData)
    ELSE [threw |-> FALSE, table |-> table]

\* PrismaService.createGroup: prisma.group.create, which throws on a groupHash already
\* stored
prismaCreateGroup(table, data) ==
    IF \E k \in 1..Len(table) : table[k].groupHash = data.groupHash
    THEN [threw |-> TRUE, table |-> table]
    ELSE [threw |-> FALSE,
          table |-> Append(table, [groupHash |-> data.groupHash, name |-> data.name,
                                   description |-> data.description])]

\* null in a numeric column
NullNumber == -1

\* PrismaService.createTransaction: prisma.transaction.create
prismaCreateTransaction(table, data) ==
    Append(table, [fromTagId |-> data.fromTagId, toTagId |-> data.toTagId,
                   tokens |-> data.tokens, grams |-> data.grams,
                   transactionHash |-> data.transactionHash,
                   blockNumber |-> data.blockNumber])

(* ----- Web3Service.setupEventListeners ----- *)
\* EventListenerService.startListening: the process comes up, the watermark starts at
\* 0 and the initial poll is made
startListening ==
    /\ ~isListening
    /\ isListening' = TRUE
    /\ lastProcessedBlock' = 0
    /\ polls' = <<[pc |-> "getCurrentBlock", fromBlock |-> 0, toBlock |-> 0]>>
    /\ UNCHANGED <<handlers, replica, projected, watermarkAtStop>>

\* the interval timer fires: pollEvents is called, whether or not an earlier call has
\* returned
pollEvents ==
    /\ isListening
    /\ Len(polls) < MaxPolls
    /\ polls' = Append(polls, [pc |-> "getCurrentBlock", fromBlock |-> 0, toBlock |-> 0])
    /\ UNCHANGED <<isListening, lastProcessedBlock, handlers, replica, projected,
                   watermarkAtStop>>

\* getCurrentBlock: the head of the chain, or the watermark when the node does not
\* answer (rpcUp is FALSE)
getCurrentBlock(rpcUp) == IF rpcUp THEN getBlockNumber ELSE lastProcessedBlock

\* the kinds of event processEvents fetches, in the order it fetches them
EventKinds == <<"ContainerCreated", "TokensTransferred", "GroupCreated">>

\* the logs of one kind processEvents hands on: none when getPastLogs threw for that
\* kind, which its catch only logs (a throw of decodeLog is caught and logged the same
\* way, log by log)
fetched(kind, failed, fromBlock, toBlock) ==
    IF kind \in failed THEN <<>> ELSE getPastLogs(kind, fromBlock, toBlock)

\* pollEvents resumes from await getCurrentBlock(): the first poll only sets the
\* watermark; a later one calls processEvents for the blocks above the watermark
getCurrentBlockReturns(k, rpcUp) ==
    LET currentBlock == getCurrentBlock(rpcUp)
    IN  /\ polls[k].pc = "getCurrentBlock"
        /\ IF lastProcessedBlock = 0
           THEN /\ lastProcessedBlock' = currentBlock
                /\ polls' = Remove(polls, k)
           ELSE IF currentBlock > lastProcessedBlock
           THEN /\ polls' = [polls EXCEPT ![k] =
                       [pc |-> "processEvents", fromBlock |-> lastProcessedBlock + 1,
                        toBlock |-> currentBlock]]
                /\ UNCHANGED lastProcessedBlock
           ELSE /\ polls' = Remove(polls, k)
                /\ UNCHANGED lastProcessedBlock
        /\ UNCHANGED <<isListening, handlers, replica, projected, watermarkAtStop>>

\* processEvents runs to its end: the logs of the range are fetched kind by kind and
\* each is handed to its callback, which is not awaited; failed: the kinds for which
\* getPastLogs threw; then pollEvents sets the watermark to the block it read
processEventsReturns(k, failed) ==
    LET fromBlock == polls[k].fromBlock
        toBlock == polls[k].toBlock
        found == Len(fetched(EventKinds[1], failed, fromBlock, toBlock))
                 + Len(fetched(EventKinds[2], failed, fromBlock, toBlock))
                 + Len(fetched(EventKinds[3], failed, fromBlock, toBlock))
    IN  /\ polls[k].pc = "processEvents"
        /\ Len(handlers) + found <= MaxHandlers
        /\ handlers' = handlers
               \o callbacks(fetched(EventKinds[1], failed, fromBlock, toBlock))
               \o callbacks(fetched(EventKinds[2], failed, fromBlock, toBlock))
               \o callbacks(fetched(EventKinds[3], failed, fromBlock, toBlock))
        /\ lastProcessedBlock' = toBlock
        /\ polls' = Remove(polls, k)
        /\ UNCHANGED <<isListening, replica, projected, watermarkAtStop>>

\* the process stops (SIGTERM, a crash): what it held in memory is gone, the database
\* stays
stop ==
    /\ isListening
    /\ isListening' = FALSE
    /\ watermarkAtStop' = lastProcessedBlock
    /\ lastProcessedBlock' = 0
    /\ polls' = <<>>
    /\ handlers' = <<>>
    /\ UNCHANGED <<replica, projected>>

(* ----- EventListenerService ----- *)
\* handleContainerCreated resumes from its await; dbUp: the database answered
handleContainerCreated(j, dbUp) ==
    LET i == handlers[j].event
        e == events[i]
        created == prismaCreateContainer(dbContainers,
                       [tagId |-> topic(e.tagId), rfid |-> e.rfid, grams |-> e.grams,
                        tokens |-> e.tokens, blockNumber |-> e.blockNumber,
                        groupHash |-> orNull(hexToString(e.groupHash))])
    IN  /\ e.kind = "ContainerCreated"
        /\ handlers' = Remove(handlers, j)
        /\ IF dbUp /\ ~created.threw
           THEN /\ dbContainers' = created.table
                /\ projected' = projected \cup {i}
           ELSE UNCHANGED <<dbContainers, projected>>
        /\ UNCHANGED <<isListening, lastProcessedBlock, polls, dbGroups, dbTransactions,
                       watermarkAtStop>>

\* handleTokensTransferred: both containers are read from the contract under the
\* tagIds the event data holds; when either read reverts the handler logs and ends;
\* otherwise both verifyAndSyncContainer calls look their row up before either creates
\* one, then the transaction row is created
handleTokensTransferred(j, dbUp) ==
    LET i == handlers[j].event
        e == events[i]
        fromTagId == topic(e.fromTagId)
        toTagId == topic(e.toTagId)
        fromFound == hasContainer(dbContainers, fromTagId)
        toFound == hasContainer(dbContainers, toTagId)
        first == verifyAndSyncContainer(fromFound, dbContainers,
                                        web3GetContainer(fromTagId))
        second == verifyAndSyncContainer(toFound, first.table, web3GetContainer(toTagId))
    IN  /\ e.kind = "TokensTransferred"
        /\ handlers' = Remove(handlers, j)
        /\ IF \/ getContainer(fromTagId).result # "ok"
              \/ getContainer(toTagId).result # "ok"
              \/ ~dbUp
           THEN UNCHANGED <<dbContainers, dbTransactions, projected>>
           ELSE IF first.threw \/ second.threw
           THEN /\ dbContainers' = second.table
                /\ UNCHANGED <<dbTransactions, projected>>
           ELSE /\ dbContainers' = second.table
                /\ dbTransactions' = prismaCreateTransaction(dbTransactions,
                       [fromTagId |-> fromTagId, toTagId |-> toTagId,
                        tokens |-> e.tokens, grams |-> e.grams, transactionHash |-> i,
                        blockNumber |-> NullNumber])
                /\ projected' = projected \cup {i}
        /\ UNCHANGED <<isListening, lastProcessedBlock, polls, dbGroups, watermarkAtStop>>

\* handleGroupCreated resumes from its await
handleGroupCreated(j, dbUp) ==
    LET i == handlers[j].event
        e == events[i]
        created == prismaCreateGroup(dbGroups,
                       [groupHash |-> hexToString(e.groupHash), name |-> e.name,
                        description |-> e.description])
    IN  /\ e.kind = "GroupCreated"
        /\ handlers' = Remove(handlers, j)
        /\ IF dbUp /\ ~created.threw
           THEN /\ dbGroups' = created.table
                /\ projected' = projected \cup {i}
           ELSE UNCHANGED <<dbGroups, projected>>
        /\ UNCHANGED <<isListening, lastProcessedBlock, polls, dbContainers, dbTransactions,
                       watermarkAtStop>>

\* the ledger is called by the deployer with arguments the contract accepts, while the
\* process polls, handles events, stops and starts
SyncNext ==
    \/ \E tagId \in TagInputs, rfid \in Rfids, groupHash \in HashInputs :
          /\ Len(events) < MaxSyncEvents
          /\ createContainerCheck("deployer", tagId, rfid, 25, groupHash) = "ok"
          /\ createContainer("deployer", tagId, rfid, 25, groupHash)
          /\ UNCHANGED <<execution, offChain>>
    \/ \E fromTagId \in TagInputs, toTagId \in TagInputs :
          /\ Len(events) < MaxSyncEvents
          /\ transferTokensCheck("deployer", fromTagId, toTagId, 1) = "ok"
          /\ transferTokens("deployer", fromTagId, toTagId, 1)
          /\ UNCHANGED <<execution, offChain>>
    \/ \E groupHash \in HashInputs, name \in Names, description \in Descriptions :
          /\ Len(events) < MaxSyncEvents
          /\ createGroupCheck("deployer", groupHash, name, description) = "ok"
          /\ createGroup("deployer", groupHash, name, description)
          /\ UNCHANGED <<execution, offChain>>
    \/ \E tagId \in TagInputs, groupHash \in HashInputs :
          /\ assignContainerToGroupCheck("deployer", tagId, groupHash) = "ok"
          /\ assignContainerToGroup("deployer", tagId, groupHash)
          /\ UNCHANGED <<execution, offChain>>
    \/ startListening /\ UNCHANGED <<ledger, lastCall, execution, api>>
    \/ pollEvents /\ UNCHANGED <<ledger, lastCall, execution, api>>
    \/ \E k \in 1..Len(polls), rpcUp \in BOOLEAN :
          getCurrentBlockReturns(k, rpcUp) /\ UNCHANGED <<ledger, lastCall, execution, api>>
    \/ \E k \in 1..Len(polls), failed \in SUBSET {EventKinds[n] : n \in 1..3} :
          processEventsReturns(k, failed) /\ UNCHANGED <<ledger, lastCall, execution, api>>
    \/ \E j \in 1..Len(handlers), dbUp \in BOOLEAN :
          handleContainerCreated(j, dbUp) /\ UNCHANGED <<ledger, lastCall, execution, api>>
    \/ \E j \in 1..Len(handlers), dbUp \in BOOLEAN :
          handleTokensTransferred(j, dbUp) /\ UNCHANGED <<ledger, lastCall, execution, api>>
    \/ \E j \in 1..Len(handlers), dbUp \in BOOLEAN :
          handleGroupCreated(j, dbUp) /\ UNCHANGED <<ledger, lastCall, execution, api>>
    \/ stop /\ UNCHANGED <<ledger, lastCall, execution, api>>

SyncSpec == Init /\ [][SyncNext]_vars

(* ----- the HTTP controllers ----- *)
\* the account of PRIVATE_KEY, from which Web3Service sends every transaction
senderAddress == "deployer"

\* the sha256 hex digests createGroup can compute for its group
Digests == {"dA", "dB"}

\* web3.utils.keccak256 of a digest
keccak256(input) == CASE input = "dA" -> "0xA" [] input = "dB" -> "0xB"

\* Web3Service.toBytes32: bytes32(0) for an empty input, a 0x-prefixed 32-byte hex
\* string as it is, the keccak256 hash of anything else
toBytes32(input) ==
    IF input = "" THEN ZeroHash
    ELSE IF input \in GroupHashes THEN input
    ELSE keccak256(input)

\* the block a transaction sent now is mined in (receipt.blockNumber)
receiptBlockNumber == blockOf(Len(events) + 1)

\* the response a controller sends
Response(op, code, key) == [op |-> op, status |-> code, key |-> key]

\* PrismaService.updateContainer: prisma.container.update of tokens and grams
prismaUpdateContainer(table, tagId, data) ==
    [k \in 1..Len(table) |->
        IF table[k].tagId = tagId
        THEN [table[k] EXCEPT !.tokens = data.tokens, !.grams = data.grams]
        ELSE table[k]]

\* POST /api/containers; dbUp: the database answered the insert
apiCreateContainer(tagId, rfid, grams, groupHash, dbUp) ==
    LET formattedGroupHash == toBytes32(groupHash)
        result == createContainerCheck(senderAddress, tagId, rfid, grams,
                                       formattedGroupHash)
        tokens == grams \div 10
        created == prismaCreateContainer(dbContainers,
                       [tagId |-> tagId, rfid |-> rfid, grams |-> grams,
                        tokens |-> tokens, blockNumber |-> receiptBlockNumber,
                        groupHash |-> groupHash])
    IN  IF tagId = "" \/ rfid = "" \/ grams = 0
        THEN /\ response' = Response("createContainer", 400, tagId)
             /\ UNCHANGED <<ledger, lastCall, replica>>
        ELSE IF hasContainer(dbContainers, tagId)
        THEN /\ response' = Response("createContainer", 409, tagId)
             /\ UNCHANGED <<ledger, lastCall, replica>>
        ELSE IF result # "ok"
        THEN /\ response' = Response("createContainer", 500, tagId)
             /\ lastCall' = Call("createContainer", result)
             /\ UNCHANGED <<ledger, replica>>
        ELSE /\ Len(events) < MaxEvents
             /\ createContainerEffect(tagId, rfid, grams, formattedGroupHash)
             /\ lastCall' = Call("createContainer", "ok")
             /\ IF dbUp /\ ~created.threw
                THEN /\ dbContainers' = created.table
                     /\ response' = Response("createContainer", 201, tagId)
                ELSE /\ response' = Response("createContainer", 500, tagId)
                     /\ UNCHANGED dbContainers
             /\ UNCHANGED <<dbGroups, dbTransactions>>

\* GET /api/containers/:tagId
apiGetContainer(tagId) ==
    /\ response' = IF hasContainer(dbContainers, tagId)
                   THEN Response("getContainer", 200, tagId)
                   ELSE Response("getContainer", 404, tagId)
    /\ UNCHANGED <<ledger, lastCall, replica>>

\* POST /api/transactions/transfer; dbUp: the database answered the writes
apiTransferTokens(fromTagId, toTagId, tokenAmount, dbUp) ==
    LET result == transferTokensCheck(senderAddress, fromTagId, toTagId, tokenAmount)
        sourceContainer == rowOf(dbContainers, fromTagId)
        gramsToTransfer == tokenAmount * 10
        afterSource == prismaUpdateContainer(dbContainers, fromTagId,
                           [tokens |-> sourceContainer.tokens - tokenAmount,
                            grams |-> sourceContainer.grams - gramsToTransfer])
        destContainer == rowOf(afterSource, toTagId)
        afterDest ==
            IF hasContainer(afterSource, toTagId)
            THEN prismaUpdateContainer(afterSource, toTagId,
                     [tokens |-> destContainer.tokens + tokenAmount,
                      grams |-> destContainer.grams + gramsToTransfer])
            ELSE prismaCreateContainer(afterSource,
                     [tagId |-> toTagId, rfid |-> "", grams |-> gramsToTransfer,
                      tokens |-> tokenAmount, blockNumber |-> receiptBlockNumber,
                      groupHash |-> ""]).table
    IN  IF fromTagId = "" \/ toTagId = "" \/ tokenAmount = 0
        THEN /\ response' = Response("transferTokens", 400, fromTagId)
             /\ UNCHANGED <<ledger, lastCall, replica>>
        ELSE IF ~hasContainer(dbContainers, fromTagId)
        THEN /\ response' = Response("transferTokens", 404, fromTagId)
             /\ UNCHANGED <<ledger, lastCall, replica>>
        ELSE IF sourceContainer.tokens < tokenAmount
        THEN /\ response' = Response("transferTokens", 400, fromTagId)
             /\ UNCHANGED <<ledger, lastCall, replica>>
        ELSE IF result # "ok"
        THEN /\ response' = Response("transferTokens", 500, fromTagId)
             /\ lastCall' = Call("transferTokens", result)
             /\ UNCHANGED <<ledger, replica>>
        ELSE /\ Len(events) < MaxEvents
             /\ transferTokensEffect(fromTagId, toTagId, tokenAmount)
             /\ lastCall' = Call("transferTokens", "ok")
             /\ IF dbUp
                THEN /\ dbContainers' = afterDest
                     /\ dbTransactions' = prismaCreateTransaction(dbTransactions,
                            [fromTagId |-> fromTagId, toTagId |-> toTagId,
                             tokens |-> tokenAmount, grams |-> gramsToTransfer,
                             transactionHash |-> Len(events) + 1,
                             blockNumber |-> receiptBlockNumber])
                     /\ response' = Response("transferTokens", 200, fromTagId)
                ELSE /\ response' = Response("transferTokens", 500, fromTagId)
                     /\ UNCHANGED <<dbContainers, dbTransactions>>
             /\ UNCHANGED dbGroups

\* POST /api/groups; digest: the sha256 of the name and the time of the request
apiCreateGroup(name, description, digest, dbUp) ==
    LET groupHash == digest
        formattedGroupHash == toBytes32(groupHash)
        result == createGroupCheck(senderAddress, formattedGroupHash, name, description)
        created == prismaCreateGroup(dbGroups,
                       [groupHash |-> groupHash, name |-> name,
                        description |-> orNull(description)])
    IN  IF name = ""
        THEN /\ response' = Response("createGroup", 400, groupHash)
             /\ UNCHANGED <<ledger, lastCall, replica>>
        ELSE IF result # "ok"
        THEN /\ response' = Response("createGroup", 500, groupHash)
             /\ lastCall' = Call("createGroup", result)
             /\ UNCHANGED <<ledger, replica>>
        ELSE /\ Len(events) < MaxEvents
             /\ createGroupEffect(formattedGroupHash, name, description)
             /\ lastCall' = Call("createGroup", "ok")
             /\ IF dbUp /\ ~created.threw
                THEN /\ dbGroups' = created.table
                     /\ response' = Response("createGroup", 201, groupHash)
                ELSE /\ response' = Response("createGroup", 500, groupHash)
                     /\ UNCHANGED dbGroups
             /\ UNCHANGED <<dbContainers, dbTransactions>>

\* requests come in to the controllers while the deployer also calls the contract
\* directly; the polling process is not running (CONTRACT_ADDRESS decides that at
\* start-up)
ApiNext ==
    \/ \E tagId \in TagInputs, rfid \in Rfids, groupHash \in HashInputs :
          /\ createContainerCheck("deployer", tagId, rfid, 25, groupHash) = "ok"
          /\ createContainer("deployer", tagId, rfid, 25, groupHash)
          /\ UNCHANGED <<execution, offChain>>
    \/ \E fromTagId \in TagInputs, toTagId \in TagInputs :
          /\ transferTokensCheck("deployer", fromTagId, toTagId, 1) = "ok"
          /\ transferTokens("deployer", fromTagId, toTagId, 1)
          /\ UNCHANGED <<execution, offChain>>
    \/ \E tagId \in TagInputs, rfid \in Rfids, grams \in {0, 25}, groupHash \in {"", "0xA"},
          dbUp \in BOOLEAN :
          /\ apiCreateContainer(tagId, rfid, grams, groupHash, dbUp)
          /\ UNCHANGED <<execution, synchronizer, projected, watermarkAtStop, requests>>
    \/ \E tagId \in TagInputs :
          /\ apiGetContainer(tagId)
          /\ UNCHANGED <<execution, synchronizer, projected, watermarkAtStop, requests>>
    \/ \E fromTagId \in TagInputs, toTagId \in TagInputs, tokenAmount \in {0, 1},
          dbUp \in BOOLEAN :
          /\ apiTransferTokens(fromTagId, toTagId, tokenAmount, dbUp)
          /\ UNCHANGED <<execution, synchronizer, projected, watermarkAtStop, requests>>
    \/ \E name \in Names \cup {""}, description \in Descriptions, digest \in Digests,
          dbUp \in BOOLEAN :
          /\ apiCreateGroup(name, description, digest, dbUp)
          /\ UNCHANGED <<execution, synchronizer, projected, watermarkAtStop, requests>>

ApiSpec == Init /\ [][ApiNext]_vars

(* ----- transferTokens of the controller, await by await ----- *)
\* the transfer requests the server handles at a time
MaxRequests == 2

\* what getContainerByTagId returns for a tagId that has no row, in the shape of a row
NoRow ==
    [tagId |-> "", rfid |-> "", grams |-> 0, tokens |-> 0, blockNumber |-> 0,
     groupHash |-> Null]

\* the request arrives: the body is validated, the source row is read and checked;
\* the handler goes on to send the transaction
apiTransferTokensStart(fromTagId, toTagId, tokenAmount) ==
    /\ Len(requests) < MaxRequests
    /\ IF fromTagId = "" \/ toTagId = "" \/ tokenAmount = 0
       THEN /\ response' = Response("transferTokens", 400, fromTagId)
            /\ UNCHANGED requests
       ELSE IF ~hasContainer(dbContainers, fromTagId)
       THEN /\ response' = Response("transferTokens", 404, fromTagId)
            /\ UNCHANGED requests
       ELSE IF rowOf(dbContainers, fromTagId).tokens < tokenAmount
       THEN /\ response' = Response("transferTokens", 400, fromTagId)
            /\ UNCHANGED requests
       ELSE /\ requests' = Append(requests,
                   [pc |-> "send", fromTagId |-> fromTagId, toTagId |-> toTagId,
                    tokenAmount |-> tokenAmount,
                    sourceContainer |-> rowOf(dbContainers, fromTagId),
                    destFound |-> FALSE, destContainer |-> NoRow,
                    transactionHash |-> 0])
            /\ UNCHANGED response
    /\ UNCHANGED <<ledger, lastCall, replica>>

\* await web3Service.transferTokens returns: the transaction is mined, or it reverted
\* and the error goes to the error handler
apiTransferTokensSent(r) ==
    LET request == requests[r]
        result == transferTokensCheck(senderAddress, request.fromTagId, request.toTagId,
                                      request.tokenAmount)
    IN  /\ request.pc = "send"
        /\ IF result # "ok"
           THEN /\ response' = Response("transferTokens", 500, request.fromTagId)
                /\ requests' = Remove(requests, r)
                /\ UNCHANGED ledger
           ELSE /\ Len(events) < MaxEvents
                /\ transferTokensEffect(request.fromTagId, request.toTagId,
                                        request.tokenAmount)
                /\ requests' = [requests EXCEPT ![r].pc = "updateSource",
                                                ![r].transactionHash = Len(events) + 1]
                /\ UNCHANGED response
        /\ lastCall' = Call("transferTokens", result)
        /\ UNCHANGED replica

\* await prismaService.updateContainer(fromTagId, ...) returns: the source row holds
\* what the handler read at the start, less the amount
apiTransferTokensSourceUpdated(r) ==
    LET request == requests[r]
    IN  /\ request.pc = "updateSource"
        /\ dbContainers' = prismaUpdateContainer(dbContainers, request.fromTagId,
               [tokens |-> request.sourceContainer.tokens - request.tokenAmount,
                grams |-> request.sourceContainer.grams - request.tokenAmount * 10])
        /\ requests' = [requests EXCEPT ![r].pc = "readDest"]
        /\ UNCHANGED <<ledger, lastCall, dbGroups, dbTransactions, response>>

\* await prismaService.getContainerByTagId(toTagId) returns
apiTransferTokensDestRead(r) ==
    LET request == requests[r]
        found == hasContainer(dbContainers, request.toTagId)
    IN  /\ request.pc = "readDest"
        /\ requests' = [requests EXCEPT
               ![r].pc = "writeDest",
               ![r].destFound = found,
               ![r].destContainer =
                   IF found THEN rowOf(dbContainers, request.toTagId) ELSE NoRow]
        /\ UNCHANGED <<ledger, lastCall, replica, response>>

\* the await of the destination's updateContainer or createContainer returns; a
\* create that throws goes to the error handler
apiTransferTokensDestWritten(r) ==
    LET request == requests[r]
        gramsToTransfer == request.tokenAmount * 10
        created == prismaCreateContainer(dbContainers,
                       [tagId |-> request.toTagId, rfid |-> "",
                        grams |-> gramsToTransfer, tokens |-> request.tokenAmount,
                        blockNumber |-> blockOf(request.transactionHash),
                        groupHash |-> ""])
    IN  /\ request.pc = "writeDest"
        /\ IF request.destFound
           THEN /\ dbContainers' = prismaUpdateContainer(dbContainers, request.toTagId,
                       [tokens |-> request.destContainer.tokens + request.tokenAmount,
                        grams |-> request.destContainer.grams + gramsToTransfer])
                /\ requests' = [requests EXCEPT ![r].pc = "record"]
                /\ UNCHANGED response
           ELSE IF created.threw
           THEN /\ response' = Response("transferTokens", 500, request.fromTagId)
                /\ requests' = Remove(requests, r)
                /\ UNCHANGED dbContainers
           ELSE /\ dbContainers' = created.table
                /\ requests' = [requests EXCEPT ![r].pc = "record"]
                /\ UNCHANGED response
        /\ UNCHANGED <<ledger, lastCall, dbGroups, dbTransactions>>

\* await prismaService.createTransaction returns and the handler answers
apiTransferTokensRecorded(r) ==
    LET request == requests[r]
    IN  /\ request.pc = "record"
        /\ dbTransactions' = prismaCreateTransaction(dbTransactions,
               [fromTagId |-> request.fromTagId, toTagId |-> request.toTagId,
                tokens |-> request.tokenAmount, grams |-> request.tokenAmount * 10,
                transactionHash |-> request.transactionHash,
                blockNumber |-> blockOf(request.transactionHash)])
        /\ response' = Response("transferTokens", 200, request.fromTagId)
        /\ requests' = Remove(requests, r)
        /\ UNCHANGED <<ledger, lastCall, dbContainers, dbGroups>>

\* containers are created through the controller with the database up; transfer
\* requests come in while earlier ones are at an await
ApiStepNext ==
    \/ \E tagId \in TagInputs, rfid \in Rfids :
          /\ requests = <<>>
          /\ apiCreateContainer(tagId, rfid, 25, "", TRUE)
          /\ UNCHANGED <<execution, synchronizer, projected, watermarkAtStop, requests>>
    \/ \E fromTagId \in TagInputs, toTagId \in TagInputs, tokenAmount \in {0, 1} :
          /\ apiTransferTokensStart(fromTagId, toTagId, tokenAmount)
          /\ UNCHANGED <<execution, synchronizer, projected, watermarkAtStop>>
    \/ \E r \in 1..Len(requests) :
          /\ apiTransferTokensSent(r)
          /\ UNCHANGED <<execution, synchronizer, projected, watermarkAtStop>>
    \/ \E r \in 1..Len(requests) :
          /\ apiTransferTokensSourceUpdated(r)
          /\ UNCHANGED <<execution, synchronizer, projected, watermarkAtStop>>
    \/ \E r \in 1..Len(requests) :
          /\ apiTransferTokensDestRead(r)
          /\ UNCHANGED <<execution, synchronizer, projected, watermarkAtStop>>
    \/ \E r \in 1..Len(requests) :
          /\ apiTransferTokensDestWritten(r)
          /\ UNCHANGED <<execution, synchronizer, projected, watermarkAtStop>>
    \/ \E r \in 1..Len(requests) :
          /\ apiTransferTokensRecorded(r)
          /\ UNCHANGED <<execution, synchronizer, projected, watermarkAtStop>>

ApiStepSpec == Init /\ [][ApiStepNext]_vars

(* ----- createContainer of the controller, await by await, beside the Synchronizer ----- *)
\* the request arrives: the body is validated and the row of the tagId is looked up;
\* the handler goes on to send the transaction
apiCreateContainerStart(tagId, rfid, grams, groupHash) ==
    /\ Len(requests) < MaxRequests
    /\ IF tagId = "" \/ rfid = "" \/ grams = 0
       THEN /\ response' = Response("createContainer", 400, tagId)
            /\ UNCHANGED requests
       ELSE IF hasContainer(dbContainers, tagId)
       THEN /\ response' = Response("createContainer", 409, tagId)
            /\ UNCHANGED requests
       ELSE /\ requests' = Append(requests,
                   [pc |-> "sendCreate", tagId |-> tagId, rfid |-> rfid,
                    grams |-> grams, groupHash |-> groupHash, transactionHash |-> 0])
            /\ UNCHANGED response
    /\ UNCHANGED <<ledger, lastCall, replica>>

\* await web3Service.createContainer returns: the transaction is mined, or it reverted
\* and the error goes to the error handler
apiCreateContainerSent(r) ==
    LET request == requests[r]
        formattedGroupHash == toBytes32(request.groupHash)
        result == createContainerCheck(senderAddress, request.tagId, request.rfid,
                                       request.grams, formattedGroupHash)
    IN  /\ request.pc = "sendCreate"
        /\ IF result # "ok"
           THEN /\ response' = Response("createContainer", 500, request.tagId)
                /\ requests' = Remove(requests, r)
                /\ UNCHANGED ledger
           ELSE /\ Len(events) < MaxSyncEvents
                /\ createContainerEffect(request.tagId, request.rfid, request.grams,
                                         formattedGroupHash)
                /\ requests' = [requests EXCEPT ![r].pc = "insert",
                                                ![r].transactionHash = Len(events) + 1]
                /\ UNCHANGED response
        /\ lastCall' = Call("createContainer", result)
        /\ UNCHANGED replica

\* await prismaService.createContainer returns and the handler answers; an insert that
\* throws goes to the error handler; dbUp: the database answered
apiCreateContainerInserted(r, dbUp) ==
    LET request == requests[r]
        created == prismaCreateContainer(dbContainers,
                       [tagId |-> request.tagId, rfid |-> request.rfid,
                        grams |-> request.grams, tokens |-> request.grams \div 10,
                        blockNumber |-> blockOf(request.transactionHash),
                        groupHash |-> request.groupHash])
    IN  /\ request.pc = "insert"
        /\ IF dbUp /\ ~created.threw
           THEN /\ dbContainers' = created.table
                /\ response' = Response("createContainer", 201, request.tagId)
           ELSE /\ response' = Response("createContainer", 500, request.tagId)
                /\ UNCHANGED dbContainers
        /\ requests' = Remove(requests, r)
        /\ UNCHANGED <<ledger, lastCall, dbGroups, dbTransactions>>

\* create requests are handled while the Synchronizer polls and projects
CreateSyncNext ==
    \/ \E tagId \in TagInputs, rfid \in Rfids :
          /\ apiCreateContainerStart(tagId, rfid, 25, "")
          /\ UNCHANGED <<execution, synchronizer, projected, watermarkAtStop>>
    \/ \E r \in 1..Len(requests) :
          /\ apiCreateContainerSent(r)
          /\ UNCHANGED <<execution, synchronizer, projected, watermarkAtStop>>
    \/ \E r \in 1..Len(requests), dbUp \in BOOLEAN :
          /\ apiCreateContainerInserted(r, dbUp)
          /\ UNCHANGED <<execution, synchronizer, projected, watermarkAtStop>>
    \/ startListening /\ UNCHANGED <<ledger, lastCall, execution, api>>
    \/ pollEvents /\ UNCHANGED <<ledger, lastCall, execution, api>>
    \/ \E k \in 1..Len(polls), rpcUp \in BOOLEAN :
          getCurrentBlockReturns(k, rpcUp) /\ UNCHANGED <<ledger, lastCall, execution, api>>
    \/ \E k \in 1..Len(polls), failed \in SUBSET {EventKinds[n] : n \in 1..3} :
          processEventsReturns(k, failed) /\ UNCHANGED <<ledger, lastCall, execution, api>>
    \/ \E j \in 1..Len(handlers), dbUp \in BOOLEAN :
          handleContainerCreated(j, dbUp) /\ UNCHANGED <<ledger, lastCall, execution, api>>

CreateSyncSpec == Init /\ [][CreateSyncNext]_vars

(* ======================= properties ======================= *)

\* the failure kinds of the interface, as the contract names them
Rejections ==
    {"ContainerAlreadyExists", "GroupAlreadyExists", "ContainerDoesNotExist",
     "GroupDoesNotExist", "InsufficientTokens", "InvalidAmount", "Unauthorized"}

\* C1: every existing container holds tokens == floor(grams / 10)
TokensAreFloorOfGrams ==
    \A t \in TagIds :
        containers[t].exists => containers[t].tokens = containers[t].grams \div 10

\* C1 witness: a transfer has just credited another container that already existed
\* and that holds a remainder below one token
TokensAreFloorOfGramsWitness ==
    /\ lastCall = Call("transferTokens", "ok")
    /\ Len(events) > 0
    /\ LET e == events[Len(events)]
       IN  /\ e.kind = "TokensTransferred"
           /\ e.fromTagId # e.toTagId
           /\ Len(containerHistory[e.toTagId]) >= 2
           /\ containers[e.toTagId].grams % 10 # 0

\* C2: a successful transferTokens(a, b, n) conserves tokens(a)+tokens(b) and
\* grams(a)+grams(b); for a # b it moves exactly n tokens and 10*n grams from a to b;
\* no other container's tokens or grams change
TransferConserves ==
    [][lastCall' = Call("transferTokens", "ok") =>
       \A sender \in Accounts, a \in TagIds, b \in TagIds, n \in AmountInputs :
          transferTokens(sender, a, b, n) =>
              /\ containers'[a].tokens + containers'[b].tokens
                     = containers[a].tokens + containers[b].tokens
              /\ containers'[a].grams + containers'[b].grams
                     = containers[a].grams + containers[b].grams
              /\ a # b =>
                     /\ containers'[a].tokens = containers[a].tokens - n
                     /\ containers'[a].grams = containers[a].grams - 10 * n
                     /\ containers'[b].tokens = containers[b].tokens + n
                     /\ containers'[b].grams = containers[b].grams + 10 * n
              /\ \A c \in TagIds \ {a, b} :
                     /\ containers'[c].tokens = containers[c].tokens
                     /\ containers'[c].grams = containers[c].grams]_vars

\* C2 witness: a transfer of two tokens between two different containers has just
\* been accepted, and a third container exists
TransferConservesWitness ==
    /\ lastCall = Call("transferTokens", "ok")
    /\ Len(events) > 0
    /\ LET e == events[Len(events)]
       IN  /\ e.kind = "TokensTransferred"
           /\ e.fromTagId # e.toTagId
           /\ e.tokens = 2
           /\ \E c \in TagIds \ {e.fromTagId, e.toTagId} : containers[c].exists

\* the accounts holding a role, read from the role table
holders(role) == {account \in Accounts : role \in roles[account]}

\* C3: a call rejected with one of the interface's failure kinds leaves containers,
\* groups, histories, the sequence counter and the event log as they were
RejectionChangesNothing ==
    [][lastCall'.result \in Rejections =>
          UNCHANGED <<containers, groups, containerHistory, blockNumberCounter, events>>]_vars

\* C3 witness: a transfer has just been rejected for insufficient tokens, in a ledger
\* that already holds containers and events
RejectionChangesNothingWitness ==
    /\ lastCall = Call("transferTokens", "InsufficientTokens")
    /\ Len(events) >= 2

\* C4: without the minter role createContainer and transferTokens are Unauthorized,
\* without the group manager role createGroup and assignContainerToGroup are, whatever
\* the arguments and the other roles held; such a call changes no ledger state
UnauthorizedCallersFail ==
    /\ [](/\ \A sender \in Accounts \ holders(MINTER_ROLE), tagId \in TagIds,
                toTagId \in TagIds, rfid \in Rfids, grams \in GramsInputs,
                tokenAmount \in AmountInputs, groupHash \in GroupHashes :
                /\ createContainerCheck(sender, tagId, rfid, grams, groupHash)
                       = "Unauthorized"
                /\ transferTokensCheck(sender, tagId, toTagId, tokenAmount)
                       = "Unauthorized"
          /\ \A sender \in Accounts \ holders(GROUP_MANAGER_ROLE), tagId \in TagIds,
                groupHash \in GroupHashes, name \in Names, description \in Descriptions :
                /\ createGroupCheck(sender, groupHash, name, description) = "Unauthorized"
                /\ assignContainerToGroupCheck(sender, tagId, groupHash) = "Unauthorized")
    /\ [][lastCall'.result = "Unauthorized" => UNCHANGED ledger]_vars

\* C4 witness: createContainer has just been refused to a caller that is not a minter
\* (every such account of the model holds the admin role), the ledger not being empty
UnauthorizedCallersFailWitness ==
    /\ lastCall = Call("createContainer", "Unauthorized")
    /\ Accounts \ holders(MINTER_ROLE) # {}
    /\ \A account \in Accounts \ holders(MINTER_ROLE) :
           DEFAULT_ADMIN_ROLE \in roles[account]
    /\ Len(events) >= 1

\* C5: for a minter, createContainer is rejected as already existing if the tagId
\* exists, else as an invalid amount if grams is 0, else as group not found if the
\* group hash is non-zero and unknown, and it succeeds in every other case
CreateContainerOutcome ==
    \A sender \in holders(MINTER_ROLE), tagId \in TagIds, rfid \in Rfids,
       grams \in GramsInputs, groupHash \in GroupHashes :
        createContainerCheck(sender, tagId, rfid, grams, groupHash) =
            IF containers[tagId].exists THEN "ContainerAlreadyExists"
            ELSE IF grams = 0 THEN "InvalidAmount"
            ELSE IF groupHash # ZeroHash /\ ~groups[groupHash].exists
                 THEN "GroupDoesNotExist"
            ELSE "ok"

\* C5 witness: createContainer has just been rejected for an unknown group while a
\* container and another group exist
CreateContainerOutcomeWitness ==
    /\ lastCall = Call("createContainer", "GroupDoesNotExist")
    /\ \E t \in TagIds : containers[t].exists
    /\ \E h \in GroupHashes : groups[h].exists

\* C6: for a minter, transferTokens is rejected as not found if the source does not
\* exist, else as an invalid amount if the amount is 0, else as insufficient if the
\* source's current tokens are fewer than the amount
TransferTokensRejections ==
    \A sender \in holders(MINTER_ROLE), a \in TagIds, b \in TagIds,
       n \in AmountInputs \cup {MaxUint} :
        LET result == transferTokensCheck(sender, a, b, n)
        IN  IF ~containers[a].exists THEN result = "ContainerDoesNotExist"
            ELSE IF n = 0 THEN result = "InvalidAmount"
            ELSE containers[a].tokens < n => result = "InsufficientTokens"

\* C6 witness: a transfer has just been rejected for insufficient tokens from a source
\* that an earlier transfer had debited
TransferTokensRejectionsWitness ==
    /\ lastCall = Call("transferTokens", "InsufficientTokens")
    /\ \E i \in 1..Len(events) :
           /\ events[i].kind = "TokensTransferred"
           /\ containers[events[i].fromTagId].tokens = 1

\* C7: a successful createContainer(tagId, rfid, grams, groupHash) stores the given
\* rfid, grams and groupHash with tokens == floor(grams / 10), and a history [tagId]
CreateContainerStores ==
    [][lastCall' = Call("createContainer", "ok") =>
       \A sender \in Accounts, tagId \in TagIds, rfid \in Rfids, grams \in GramsInputs,
          groupHash \in GroupHashes :
          createContainer(sender, tagId, rfid, grams, groupHash) =>
              /\ containers'[tagId].exists
              /\ containers'[tagId].tagId = tagId
              /\ containers'[tagId].rfid = rfid
              /\ containers'[tagId].grams = grams
              /\ containers'[tagId].groupHash = groupHash
              /\ containers'[tagId].tokens = grams \div 10
              /\ containerHistory'[tagId] = <<tagId>>]_vars

\* C7 witness: a container with a remainder below one token has just been created in
\* an existing group
CreateContainerStoresWitness ==
    /\ lastCall = Call("createContainer", "ok")
    /\ Len(events) > 0
    /\ LET e == events[Len(events)]
       IN  /\ e.kind = "ContainerCreated"
           /\ e.groupHash # ZeroHash
           /\ e.grams % 10 # 0
           /\ containers[e.tagId].exists

\* C8: a successful transferTokens(from, to, n) to a destination that does not exist
\* creates it with rfid "", no group, tokens n, grams 10*n, the next sequence number
\* and history [from], and debits the source by n tokens and 10*n grams
TransferMaterializes ==
    [][lastCall' = Call("transferTokens", "ok") =>
       \A sender \in Accounts, a \in TagIds, b \in TagIds, n \in AmountInputs :
          (transferTokens(sender, a, b, n) /\ ~containers[b].exists) =>
              /\ containers'[b] =
                     [tagId |-> b, rfid |-> "", grams |-> 10 * n, tokens |-> n,
                      blockNumber |-> blockNumberCounter, groupHash |-> ZeroHash,
                      exists |-> TRUE]
              /\ containerHistory'[b] = <<a>>
              /\ containers'[a].tokens = containers[a].tokens - n
              /\ containers'[a].grams = containers[a].grams - 10 * n]_vars

\* C8 witness: a transfer of two tokens has just created its destination, which holds
\* the latest sequence number
TransferMaterializesWitness ==
    /\ lastCall = Call("transferTokens", "ok")
    /\ Len(events) > 0
    /\ LET e == events[Len(events)]
       IN  /\ e.kind = "TokensTransferred"
           /\ e.tokens = 2
           /\ containerHistory[e.toTagId] = <<e.fromTagId>>
           /\ containers[e.toTagId].rfid = ""
           /\ containers[e.toTagId].blockNumber + 1 = blockNumberCounter

\* C9 as claimed: for a minter, transferTokens from an existing source holding at
\* least n > 0 tokens always succeeds
TransferAlwaysSucceeds ==
    \A sender \in holders(MINTER_ROLE), a \in TagIds, b \in TagIds, n \in AmountInputs :
        (containers[a].exists /\ n > 0 /\ containers[a].tokens >= n) =>
            transferTokensCheck(sender, a, b, n) = "ok"

\* C9 as amended: such a transfer succeeds unless crediting an existing destination
\* other than the source would take its grams above the largest value of the integer
\* type; then, and only then, it aborts with an arithmetic panic
TransferSucceedsUnlessCreditOverflows ==
    \A sender \in holders(MINTER_ROLE), a \in TagIds, b \in TagIds, n \in AmountInputs :
        (containers[a].exists /\ n > 0 /\ containers[a].tokens >= n) =>
            transferTokensCheck(sender, a, b, n) =
                IF a # b /\ containers[b].exists
                   /\ containers[b].grams + 10 * n > 2^UintBits - 1
                THEN "Panic"
                ELSE "ok"

\* C9 witness: a transfer from a sufficient source has just aborted with a panic
TransferSucceedsUnlessCreditOverflowsWitness ==
    /\ lastCall = Call("transferTokens", "Panic")
    /\ \E a \in TagIds : containers[a].exists /\ containers[a].tokens >= 1

\* the position in the event log at which a container came into existence
born(t) ==
    CHOOSE i \in 1..Len(events) :
        /\ \/ events[i].kind = "ContainerCreated" /\ events[i].tagId = t
           \/ events[i].kind = "TokensTransferred" /\ events[i].toTagId = t
        /\ \A j \in 1..(i - 1) :
               ~ \/ events[j].kind = "ContainerCreated" /\ events[j].tagId = t
                 \/ events[j].kind = "TokensTransferred" /\ events[j].toTagId = t

\* C10: a container that came into existence before another holds the smaller
\* sequence number
SequenceNumbersIncrease ==
    \A x \in TagIds, y \in TagIds :
        (containers[x].exists /\ containers[y].exists /\ born(x) < born(y)) =>
            containers[x].blockNumber < containers[y].blockNumber

\* C10 witness: three containers exist, the second of them created by a transfer
SequenceNumbersIncreaseWitness ==
    /\ \A t \in TagIds : containers[t].exists
    /\ \E x \in TagIds, y \in TagIds, z \in TagIds :
           /\ born(x) < born(y) /\ born(y) < born(z)
           /\ events[born(y)].kind = "TokensTransferred"
           /\ events[born(z)].kind = "ContainerCreated"

\* C11: every accepted createContainer, transferTokens (to an existing and to a new
\* destination) and createGroup advances the sequence counter by exactly one
EveryMutationAdvancesSequence ==
    [][(/\ lastCall'.result = "ok"
        /\ lastCall'.op \in {"createContainer", "transferTokens", "createGroup"})
       => blockNumberCounter' = blockNumberCounter + 1]_vars

\* C12: an accepted createContainer, transferTokens or createGroup appends exactly one
\* event of its kind carrying the call's payload; a rejected call appends nothing; no
\* step changes or removes an entry already in the log
OneEventPerAcceptedCall ==
    [][/\ Len(events') >= Len(events)
       /\ SubSeq(events', 1, Len(events)) = events
       /\ lastCall'.result # "ok" => events' = events
       /\ lastCall' = Call("createContainer", "ok") =>
              \A sender \in Accounts, tagId \in TagIds, rfid \in Rfids,
                 grams \in GramsInputs, groupHash \in GroupHashes :
                  createContainer(sender, tagId, rfid, grams, groupHash) =>
                      events' = Append(events,
                          [kind |-> "ContainerCreated", tagId |-> tagId, rfid |-> rfid,
                           grams |-> grams, tokens |-> grams \div 10,
                           blockNumber |-> blockNumberCounter, groupHash |-> groupHash,
                           timestamp |-> Len(events) + 1])
       /\ lastCall' = Call("transferTokens", "ok") =>
              \A sender \in Accounts, a \in TagIds, b \in TagIds, n \in AmountInputs :
                  transferTokens(sender, a, b, n) =>
                      events' = Append(events,
                          [kind |-> "TokensTransferred", fromTagId |-> a, toTagId |-> b,
                           tokens |-> n, grams |-> 10 * n,
                           timestamp |-> Len(events) + 1])
       /\ lastCall' = Call("createGroup", "ok") =>
              \A sender \in Accounts, h \in GroupHashes, name \in Names,
                 description \in Descriptions :
                  createGroup(sender, h, name, description) =>
                      events' = Append(events,
                          [kind |-> "GroupCreated", groupHash |-> h, name |-> name,
                           description |-> description,
                           timestamp |-> Len(events) + 1])]_vars

\* C12 witness: the log holds an event of each kind and the last call was rejected
OneEventPerAcceptedCallWitness ==
    /\ lastCall.result \in Rejections
    /\ \A k \in {"ContainerCreated", "TokensTransferred", "GroupCreated"} :
           \E i \in 1..Len(events) : events[i].kind = k

\* C13: createGroup by a GroupManager is accepted exactly when no group holds the
\* hash, and is rejected with GroupAlreadyExists otherwise; an accepted call brings
\* the group into existence; a group that exists keeps its name, description and
\* createdAt and stays in existence in every later step
GroupsAreCreatedOnce ==
    /\ [](\A sender \in holders(GROUP_MANAGER_ROLE), h \in GroupHashes, name \in Names,
             description \in Descriptions :
              createGroupCheck(sender, h, name, description) =
                  IF groups[h].exists THEN "GroupAlreadyExists" ELSE "ok")
    /\ [][/\ \A h \in GroupHashes : groups[h].exists => groups'[h] = groups[h]
          /\ lastCall' = Call("createGroup", "ok") =>
                 \E h \in GroupHashes : ~groups[h].exists /\ groups'[h].exists]_vars

\* C13 witness: a second createGroup on a hash in use has just been rejected, after
\* other calls were accepted since the group was created
GroupsAreCreatedOnceWitness ==
    /\ lastCall = Call("createGroup", "GroupAlreadyExists")
    /\ \E h \in GroupHashes : groups[h].exists /\ groups[h].createdAt < Len(events)

\* C14: assignContainerToGroup by a GroupManager is rejected with
\* ContainerDoesNotExist when the container does not exist, otherwise with
\* GroupDoesNotExist when the group does not exist, and is accepted otherwise; after
\* an accepted call getContainer returns the assigned hash as its sixth value,
\* whatever group the container belonged to before
AssignSetsGroupHash ==
    /\ [](\A sender \in holders(GROUP_MANAGER_ROLE), t \in TagIds, h \in GroupHashes :
              assignContainerToGroupCheck(sender, t, h) =
                  IF ~containers[t].exists THEN "ContainerDoesNotExist"
                  ELSE IF ~groups[h].exists THEN "GroupDoesNotExist"
                  ELSE "ok")
    /\ [][lastCall' = Call("assignContainerToGroup", "ok") =>
              \A sender \in Accounts, t \in TagIds, h \in GroupHashes :
                  assignContainerToGroup(sender, t, h) =>
                      /\ getContainer(t)'.result = "ok"
                      /\ getContainer(t)'.value[6] = h]_vars

\* C14 witness: a container created in one group has just been assigned to another
AssignSetsGroupHashWitness ==
    /\ lastCall = Call("assignContainerToGroup", "ok")
    /\ \E i \in 1..Len(events) :
           /\ events[i].kind = "ContainerCreated"
           /\ events[i].groupHash # ZeroHash
           /\ containers[events[i].tagId].groupHash \notin {ZeroHash, events[i].groupHash}

\* C15: a container that exists stays in existence and keeps its tagId, rfid and
\* sequence number in every step; its tokens or grams differ after a step only when
\* the step is an accepted transferTokens naming it as source or destination; its
\* groupHash differs only when the step is an accepted assignContainerToGroup on it
ContainersPersist ==
    [][\A t \in TagIds : containers[t].exists =>
           /\ containers'[t].exists
           /\ containers'[t].tagId = containers[t].tagId
           /\ containers'[t].rfid = containers[t].rfid
           /\ containers'[t].blockNumber = containers[t].blockNumber
           /\ (\/ containers'[t].tokens # containers[t].tokens
               \/ containers'[t].grams # containers[t].grams) =>
                  /\ lastCall' = Call("transferTokens", "ok")
                  /\ Len(events') = Len(events) + 1
                  /\ events'[Len(events')].kind = "TokensTransferred"
                  /\ t \in {events'[Len(events')].fromTagId, events'[Len(events')].toTagId}
           /\ containers'[t].groupHash # containers[t].groupHash =>
                  /\ lastCall' = Call("assignContainerToGroup", "ok")
                  /\ \E sender \in Accounts, h \in GroupHashes :
                         assignContainerToGroup(sender, t, h)]_vars

\* C15 witness: a container made by createContainer has since taken part in a
\* transfer and been assigned to a group, and a later call has been rejected
ContainersPersistWitness ==
    /\ lastCall.result \in Rejections
    /\ \E i \in 1..Len(events) :
           /\ events[i].kind = "ContainerCreated"
           /\ containers[events[i].tagId].grams # events[i].grams
           /\ containers[events[i].tagId].groupHash # events[i].groupHash
           /\ containers[events[i].tagId].rfid = events[i].rfid
           /\ containers[events[i].tagId].blockNumber = events[i].blockNumber

\* the tokens that containers c hold under the two tagIds of the call in execution
held(c) ==
    IF frame.fromTagId = frame.toTagId
    THEN c[frame.fromTagId].tokens
    ELSE c[frame.fromTagId].tokens + c[frame.toTagId].tokens

\* a transfer is in execution and its source has been debited while its destination
\* has not been credited or created yet
halfApplied == frame.pc # "none" /\ held(containers) # held(frame.saved.containers)

\* every write of the transfer in execution has been made: the source holds the
\* amount less and the destination exists and holds the amount more than when the
\* call began
fullyApplied ==
    LET before == frame.saved.containers
        a == frame.fromTagId
        b == frame.toTagId
        n == frame.tokenAmount
    IN  /\ frame.pc # "none"
        /\ containers[b].exists
        /\ IF a = b
           THEN /\ containers[a].tokens = before[a].tokens
                /\ containers[a].grams = before[a].grams
           ELSE /\ containers[a].tokens = before[a].tokens - n
                /\ containers[a].grams = before[a].grams - 10 * n
                /\ containers[b].tokens = before[b].tokens + n
                /\ containers[b].grams = before[b].grams + 10 * n

\* C16: TokensTransferred is emitted only when every write of the transfer has been
\* made; a reader's call never runs on a state in which the source is debited and
\* the destination is not yet credited or created; a transferTokens call that arrives
\* while one is in execution is refused and changes nothing
TransferIsIndivisible ==
    [][/\ events' # events /\ frame.pc # "none" => fullyApplied
       /\ (lastCall'.op = "getContainer" /\ lastCall' # lastCall) => ~halfApplied
       /\ (frame.pc # "none" /\ frame' = frame) =>
              /\ ledger' = ledger
              /\ lastCall' = Call("transferTokens", "ReentrantCall")]_vars

\* C16 witness: a second transferTokens call has been refused while the source of
\* the first was debited and its destination not yet created
TransferIsIndivisibleWitness ==
    /\ lastCall = Call("transferTokens", "ReentrantCall")
    /\ halfApplied
    /\ ~containers[frame.toTagId].exists

\* the event at position i of the log is projected, or a handler call for it is in
\* flight
projectedOrInFlight(i) ==
    i \in projected \/ \E j \in 1..Len(handlers) : handlers[j].event = i

\* C17: after a restart no event at or below the watermark w the process held when it
\* stopped is handed to a handler again, and every event above w is projected; here in
\* its finite form: once the restarted process has moved its watermark past an event
\* above w, the event is projected or its projection is under way (the poll cycles
\* never fetch it again)
ResumesFromWatermark ==
    /\ []((isListening /\ watermarkAtStop > 0) =>
             \A i \in 1..Len(events) :
                 (watermarkAtStop < blockOf(i) /\ blockOf(i) <= lastProcessedBlock) =>
                     projectedOrInFlight(i))
    /\ [][(isListening /\ watermarkAtStop > 0) =>
             \A j \in (Len(handlers) + 1)..Len(handlers') :
                 blockOf(handlers'[j].event) > watermarkAtStop]_vars

\* C18: the watermark moves past an event only when that event has been projected
\* (the first poll of a process, which sets the watermark from 0, aside)
WatermarkFollowsProjection ==
    [][(lastProcessedBlock # 0 /\ lastProcessedBlock' > lastProcessedBlock) =>
           \A i \in 1..Len(events) :
               (lastProcessedBlock < blockOf(i) /\ blockOf(i) <= lastProcessedBlock') =>
                   i \in projected']_vars

\* the Replica holds a row for the ledger's container t, under its tagId or under
\* the topic of its tagId, with the tokens and grams the ledger holds
matches(table, t) ==
    \E k \in 1..Len(table) :
        /\ table[k].tagId \in {t, topic(t)}
        /\ table[k].tokens = containers[t].tokens
        /\ table[k].grams = containers[t].grams

\* C20: when a handleTokensTransferred call has run to its end with the node and the
\* database up (the ledger does not change during the call), the Replica has a row
\* for the source and a row for the destination, each with the tokens and grams the
\* ledger holds
ReconciliationMatchesLedger ==
    [][\A j \in 1..Len(handlers) :
           handleTokensTransferred(j, TRUE) =>
               /\ matches(dbContainers', events[handlers[j].event].fromTagId)
               /\ matches(dbContainers', events[handlers[j].event].toTagId)]_vars

TransferExtendsHistory ==
    [][lastCall' = Call("transferTokens", "ok") =>
           \A sender \in Accounts, a \in TagIds, b \in TagIds, n \in AmountInputs :
               (transferTokens(sender, a, b, n) /\ containers[b].exists) =>
                   /\ Len(containerHistory'[b]) = Len(containerHistory[b]) + 1
                   /\ containerHistory'[b][Len(containerHistory'[b])] = a
                   /\ SubSeq(containerHistory'[b], 1, Len(containerHistory[b])) =
                          containerHistory[b]
                   /\ \A t \in TagIds \ {b} :
                          containerHistory'[t] = containerHistory[t]]_vars

\* C26 witness: a transfer between two different containers has just been accepted,
\* and the destination's history held an entry before it
TransferExtendsHistoryWitness ==
    /\ lastCall = Call("transferTokens", "ok")
    /\ LET e == events[Len(events)]
       IN  /\ e.fromTagId # e.toTagId
           /\ Len(containerHistory[e.toTagId]) >= 2
           /\ containerHistory[e.toTagId][Len(containerHistory[e.toTagId])] = e.fromTagId

\* C27: an accepted assignContainerToGroup changes the groupHash of one existing
\* container and nothing else of the ledger: every other field of that container,
\* every other container, the histories, the groups, the counter and the event log
\* stay as they were; and no step of the polling process changes the groupHash of a
\* container row the Replica holds
AssignChangesOnlyGroupHash ==
    [][/\ (/\ lastCall' = Call("assignContainerToGroup", "ok")
           /\ <<ledger, lastCall>>' # <<ledger, lastCall>>) =>
              /\ \E t \in TagIds, h \in GroupHashes :
                     /\ containers[t].exists
                     /\ containers' = [containers EXCEPT ![t].groupHash = h]
              /\ UNCHANGED <<groups, containerHistory, blockNumberCounter, roles, events>>
              /\ UNCHANGED replica
       /\ \A k \in 1..Len(dbContainers) :
              /\ k <= Len(dbContainers')
              /\ dbContainers'[k].tagId = dbContainers[k].tagId
              /\ dbContainers'[k].groupHash = dbContainers[k].groupHash]_vars

\* C27 witness: a container whose row the Replica holds has just been assigned to a
\* group other than the one in its row, while the process is polling
AssignChangesOnlyGroupHashWitness ==
    /\ lastCall = Call("assignContainerToGroup", "ok")
    /\ isListening /\ lastProcessedBlock = getBlockNumber
    /\ \E k \in 1..Len(dbContainers), t \in TagIds :
           /\ dbContainers[k].tagId = topic(t)
           /\ containers[t].groupHash # ZeroHash
           /\ dbContainers[k].groupHash = Null

\* the sum of f[x] over the elements x of the finite set S
RECURSIVE Sum(_, _)
Sum(f, S) ==
    IF S = {} THEN 0
    ELSE LET x == CHOOSE y \in S : TRUE IN f[x] + Sum(f, S \ {x})

\* the positions in the log of the accepted createContainer calls
creations == {i \in 1..Len(events) : events[i].kind = "ContainerCreated"}

\* C30: the grams of all containers add up to the grams arguments of the accepted
\* createContainer calls, and the tokens of all containers to the floor(grams / 10) of
\* those calls; no other call changes either total
TotalsMatchCreations ==
    /\ Sum([t \in TagIds |-> containers[t].grams], TagIds) =
           Sum([i \in creations |-> events[i].grams], creations)
    /\ Sum([t \in TagIds |-> containers[t].tokens], TagIds) =
           Sum([i \in creations |-> events[i].grams \div 10], creations)

\* C30 witness: after two createContainer calls a transfer has created a third
\* container
TotalsMatchCreationsWitness ==
    /\ lastCall = Call("transferTokens", "ok")
    /\ Cardinality(creations) = 2
    /\ \A t \in TagIds : containers[t].exists

\* C29: the first poll of a process is not a special case: the cycle that takes the
\* watermark from 0 to the head fetches every event up to the head, so each of them is
\* projected or in a handler when the watermark has moved
FirstPollFetchesFromZero ==
    [][(isListening /\ lastProcessedBlock = 0 /\ lastProcessedBlock' > 0) =>
           \A i \in 1..Len(events) :
               blockOf(i) <= lastProcessedBlock' =>
                   \/ i \in projected'
                   \/ \E j \in 1..Len(handlers') : handlers'[j].event = i]_vars

\* C25: a failure to read the head or to fetch the events of a range never moves the
\* watermark over events that were not fetched: when a cycle after the first moves the
\* watermark, every event of the blocks it moves over has been handed to a handler
\* (or was projected before), so nothing is left for a later cycle to fetch again
WatermarkStaysBelowUnfetched ==
    [][(lastProcessedBlock # 0 /\ lastProcessedBlock' > lastProcessedBlock) =>
           \A i \in 1..Len(events) :
               (lastProcessedBlock < blockOf(i) /\ blockOf(i) <= lastProcessedBlock') =>
                   \/ i \in projected'
                   \/ \E j \in 1..Len(handlers') : handlers'[j].event = i]_vars

\* C28: a poll cycle hands the events of its range to the handlers in the order the
\* ledger emitted them, whatever their kinds
HandsOverInLedgerOrder ==
    [][Len(handlers') > Len(handlers) =>
           \A j1, j2 \in (Len(handlers) + 1)..Len(handlers') :
               j1 < j2 => handlers'[j1].event < handlers'[j2].event]_vars

\* C23: at most one poll cycle is under way at any time, and no two cycles process
\* blocks of the same range
OnePollCycleAtATime ==
    /\ Len(polls) <= 1
    /\ \A k, l \in 1..Len(polls) :
           (k # l /\ polls[k].pc = "processEvents" /\ polls[l].pc = "processEvents") =>
               \/ polls[k].toBlock < polls[l].fromBlock
               \/ polls[l].toBlock < polls[k].fromBlock

\* the process has caught up with the ledger: its watermark is at the head, no handler
\* is running and no cycle holds a range, so later cycles find nothing to fetch until
\* the ledger emits again
caughtUp ==
    /\ isListening
    /\ lastProcessedBlock = getBlockNumber
    /\ handlers = <<>>
    /\ \A k \in 1..Len(polls) : polls[k].pc = "getCurrentBlock"

\* C21: once the polling process has caught up with a ledger that has stopped changing,
\* every container of the ledger has a Replica row (under its tagId or under the topic
\* of its tagId) with the ledger's tokens and grams, and every group of the ledger has
\* a Replica row
CaughtUpReplicaMatchesLedger ==
    caughtUp =>
        /\ \A t \in TagIds : containers[t].exists => matches(dbContainers, t)
        /\ \A h \in GroupHashes :
               groups[h].exists =>
                   \E k \in 1..Len(dbGroups) : dbGroups[k].groupHash = hexToString(h)

\* C22: the lookup of a container by its tagId never answers not-found for a container
\* the ledger holds: when the Replica has no row for it, the lookup reads the ledger and
\* inserts the row first
LookupRepairsFromLedger ==
    [][\A t \in TagIds :
           (apiGetContainer(t) /\ response'.status = 404) =>
               ~containers[t].exists]_vars

\* C24: the controllers of createContainer, transferTokens and createGroup write no
\* Replica row: a step in which one of them handles a request leaves the three tables
\* as they are
ControllersLeaveReplicaAlone ==
    [][/\ \A tagId \in TagIds, rfid \in Rfids, grams \in {0, 25},
            groupHash \in {"", "0xA"}, dbUp \in BOOLEAN :
              apiCreateContainer(tagId, rfid, grams, groupHash, dbUp) =>
                  UNCHANGED replica
       /\ \A fromTagId \in TagIds, toTagId \in TagIds, tokenAmount \in {0, 1},
            dbUp \in BOOLEAN :
              apiTransferTokens(fromTagId, toTagId, tokenAmount, dbUp) =>
                  UNCHANGED replica
       /\ \A name \in Names, description \in Descriptions, digest \in Digests,
            dbUp \in BOOLEAN :
              apiCreateGroup(name, description, digest, dbUp) =>
                  UNCHANGED replica]_vars

\* the tagIds of the containers the ledger holds
existing == {t \in TagIds : containers[t].exists}

\* C31: the sequence counter is 1 + the number of containers, and the sequence numbers
\* of the N containers are exactly 1..N: nothing but the creation of a container takes
\* a number, and none is skipped or used twice
SequenceNumbersAreDense ==
    /\ blockNumberCounter = 1 + Cardinality(existing)
    /\ {containers[t].blockNumber : t \in existing} = 1..Cardinality(existing)

\* C31 witness: three containers, one of them created by a transfer, and the last call
\* was rejected
SequenceNumbersAreDenseWitness ==
    /\ Cardinality(existing) = 3
    /\ \E t \in existing : born(t) \in 1..Len(events)
                           /\ events[born(t)].kind = "TokensTransferred"
    /\ lastCall.result \in Rejections

\* C32: the groupHash of every container is bytes32(0) or the hash of a group the ledger
\* holds; a container created by transferTokens has groupHash bytes32(0), and the
\* groupHash of a container changes only by an accepted assignContainerToGroup
GroupReferencesExist ==
    /\ [](\A t \in TagIds :
              containers[t].exists =>
                  \/ containers[t].groupHash = ZeroHash
                  \/ groups[containers[t].groupHash].exists)
    /\ [][\A t \in TagIds :
              /\ (/\ ~containers[t].exists
                  /\ containers'[t].exists
                  /\ lastCall'.op = "transferTokens") =>
                     containers'[t].groupHash = ZeroHash
              /\ (/\ containers[t].exists
                  /\ containers'[t].groupHash # containers[t].groupHash) =>
                     lastCall' = Call("assignContainerToGroup", "ok")]_vars

\* C32 witness: a container in a group has passed tokens to a new container, which is
\* in no group
GroupReferencesExistWitness ==
    /\ lastCall = Call("transferTokens", "ok")
    /\ \E a \in TagIds, b \in TagIds :
           /\ containers[a].exists /\ containers[a].groupHash # ZeroHash
           /\ containers[b].exists /\ containers[b].rfid = ""
           /\ containers[b].groupHash = ZeroHash
           /\ containerHistory[b] = <<a>>

\* the transfers into container t that the log holds after the event that created t
transfersInto(t) ==
    {i \in (born(t) + 1)..Len(events) :
        events[i].kind = "TokensTransferred" /\ events[i].toTagId = t}

\* C33: the history of a container starts with its own tagId when createContainer
\* created it and with the source's tagId when a transfer created it, holds one more
\* entry for every later transfer into it, and names only containers the ledger holds;
\* a tagId without a container has an empty history
HistoriesRecordTransfers ==
    \A t \in TagIds :
        IF containers[t].exists
        THEN /\ containerHistory[t] # <<>>
             /\ containerHistory[t][1] =
                    IF events[born(t)].kind = "ContainerCreated"
                    THEN t
                    ELSE events[born(t)].fromTagId
             /\ Len(containerHistory[t]) = 1 + Cardinality(transfersInto(t))
             /\ \A k \in 1..Len(containerHistory[t]) :
                    containers[containerHistory[t][k]].exists
        ELSE containerHistory[t] = <<>>

\* C33 witness: a container created by a transfer has received a second transfer, and
\* another tagId has no container
HistoriesRecordTransfersWitness ==
    \E t \in TagIds, u \in TagIds :
        /\ containers[t].exists
        /\ events[born(t)].kind = "TokensTransferred"
        /\ Len(containerHistory[t]) = 2
        /\ ~containers[u].exists

\* C34: an accepted transferTokens(a, a, n) leaves the tokens and grams of a (and the
\* rest of its record) as they were, appends a to a's own history, takes no sequence
\* number and emits one TokensTransferred event
SelfTransferKeepsBalance ==
    [][lastCall' = Call("transferTokens", "ok") =>
       \A sender \in Accounts, a \in TagIds, n \in AmountInputs :
          transferTokens(sender, a, a, n) =>
              /\ containers[a].exists /\ 0 < n /\ n <= containers[a].tokens
              /\ containers' = containers
              /\ containerHistory' =
                     [containerHistory EXCEPT ![a] = Append(containerHistory[a], a)]
              /\ blockNumberCounter' = blockNumberCounter
              /\ Len(events') = Len(events) + 1
              /\ SubSeq(events', 1, Len(events)) = events
              /\ events'[Len(events')].kind = "TokensTransferred"
              /\ events'[Len(events')].fromTagId = a
              /\ events'[Len(events')].toTagId = a
              /\ events'[Len(events')].tokens = n]_vars

\* C34 witness: a container has just sent its last two tokens to itself
SelfTransferKeepsBalanceWitness ==
    /\ lastCall = Call("transferTokens", "ok")
    /\ Len(events) > 0
    /\ LET e == events[Len(events)]
       IN  /\ e.kind = "TokensTransferred"
           /\ e.fromTagId = e.toTagId
           /\ e.tokens = 2
           /\ containers[e.fromTagId].tokens = 2
           /\ containerHistory[e.fromTagId][Len(containerHistory[e.fromTagId])]
                  = e.fromTagId

\* the positions in the log of the accepted transfers
transfers == {i \in 1..Len(events) : events[i].kind = "TokensTransferred"}

\* C35: when the transfer requests that were handled at the same time have all
\* completed successfully (none is in flight and every transfer the ledger accepted
\* has its Transaction row), the Replica row of every container holds the tokens and
\* grams the ledger holds
ConcurrentTransfersKeepReplica ==
    (requests = <<>> /\ Len(dbTransactions) = Cardinality(transfers)) =>
        \A t \in TagIds :
            containers[t].exists =>
                /\ hasContainer(dbContainers, t)
                /\ rowOf(dbContainers, t).tokens = containers[t].tokens
                /\ rowOf(dbContainers, t).grams = containers[t].grams

\* the Transaction rows that record the transfer at position i of the log
recordsOf(table, i) == {k \in 1..Len(table) : table[k].transactionHash = i}

\* C36: for each transfer the ledger accepted the Replica ends with exactly one
\* Transaction row: when handleTokensTransferred has run for a transfer, with the
\* node and the database answering, the table holds one row of that transfer
EachTransferRecordedOnce ==
    [][\A j \in 1..Len(handlers) :
          handleTokensTransferred(j, TRUE) =>
              Cardinality(recordsOf(dbTransactions', handlers[j].event)) = 1]_vars

\* C37: while the Synchronizer runs, the watermark never decreases, whichever way the
\* poll cycles interleave
WatermarkNeverDecreases ==
    [][(isListening /\ isListening') => lastProcessedBlock' >= lastProcessedBlock]_vars

\* the rows the Replica holds under tagId
rowsOf(table, tagId) == {k \in 1..Len(table) : table[k].tagId = tagId}

ReplicaChecksAgreeWithLedger ==
    [][/\ \A fromTagId \in TagIds, toTagId \in TagIds :
             (/\ apiTransferTokens(fromTagId, toTagId, 1, TRUE)
              /\ response'.status \in {400, 404})
                 => transferTokensCheck(senderAddress, fromTagId, toTagId, 1) # "ok"
       /\ \A tagId \in TagIds, rfid \in Rfids :
             (/\ apiCreateContainer(tagId, rfid, 25, "", TRUE)
              /\ response'.status = 409)
                 => createContainerCheck(senderAddress, tagId, rfid, 25,
                                         toBytes32("")) # "ok"]_vars

\* C40: the blockNumber of every container row is the sequence number the ledger gave
\* that container, whichever path wrote the row
RowsCarrySequenceNumber ==
    \A k \in 1..Len(dbContainers) :
        \A t \in TagIds :
            dbContainers[k].tagId \in {t, topic(t)} =>
                dbContainers[k].blockNumber = containers[t].blockNumber

====
